---- MODULE Spec2Model ----
(***************************************************************************)
(* A model of the session-authenticated download pipeline of snowchains:   *)
(*   - ExtractZip::extract_zip  (src/src/service/mod.rs)                   *)
(*   - Yukicoder::login         (src/src/service/yukicoder.rs)             *)
(*   - Yukicoder::download      (src/src/service/yukicoder.rs)             *)
(*                                                                         *)
(* Strings that the code compares or parses (the pairing keys) are         *)
(* sequences of one-character strings.  Option<T> is a sequence of length  *)
(* at most one: None is << >> and Some(x) is << x >>.                      *)
(***************************************************************************)
EXTENDS Integers, Sequences, FiniteSets, TLC

VARIABLES
    \* ---- extract_zip ----
    archive,    \* the entries of the ZipArchive, by index
    sortings,   \* ZipEntries.sortings
    tpc,        \* position of each parallel entry task
    taken,      \* each task's local: what pairs.remove(&name) returned
    pairs,      \* the shared HashMap behind the Mutex
    mutex,      \* the task holding the Mutex, if any
    zpc,        \* position of the thread that called extract_zip
    cases,      \* the Vec `cases`
    prev,       \* `cases` as it was when the last executed sort pass began
    sortIdx,    \* index of the next element of `sortings` to apply
    ret,        \* the returned Vec, once extract_zip has returned
    written,    \* history: the artifacts written to the directory, in order
    zresult,    \* what extract_zip returned
    \* ---- the text of one entry, in its task ----
    content,        \* what string_from_read returned for the entry
    entrySide,      \* the pattern its name matched: "in" or "out"
    inCrlfToLf,     \* ZipEntries.in_crlf_to_lf
    outCrlfToLf,    \* ZipEntries.out_crlf_to_lf
    stored,         \* the text put into the map for it
    \* ---- login ----
    valid,      \* the REVEL_SESSION values the remote service accepts
    credential, \* Yukicoder.credential
    cookies,    \* the session's cookie jar (REVEL_SESSION values)
    username,   \* Yukicoder.username
    assure,     \* the argument of the running call of login
    lpc,        \* position inside login
    first,      \* the local `first` of the loop
    result,     \* what the last call of login returned
    installs,   \* history: every credential installed, with where it came from
    asked,      \* history: the answers to "Login? " in the current call
    prompts,    \* history: number of "REVEL_SESSION: " prompts in the current call
    wrongs,     \* history: number of "Wrong" messages in the current call
    printed,    \* history: the "Username: ..." lines of the current call
    probes,     \* history: the identity probes of the current call
    logins,     \* number of calls of login on this object
    \* ---- download ----
    contestArg,     \* the contest string of the configuration
    problems,       \* DownloadProps.problems
    onlyScraped,    \* DownloadProps.only_scraped
    openInBrowser,  \* DownloadProps.open_in_browser
    solved,         \* the problem numbers the remote service lists as solved
    dpc,            \* position inside download
    dIdx,           \* index of the running for loop
    listing,        \* the local `target_problems`
    outcome,        \* outcome.problems
    notFound,       \* the local `not_found`
    notPublic,      \* the local `not_public`
    warnings,       \* history: the warning lines written to stderr
    solvedBatchNos, \* the local `solved_batch_nos`
    zips,           \* what download_progress returned
    textFilePaths,  \* the local `text_file_paths`
    extracted,      \* history: the archives extracted, with their directory
    saved,          \* history: the suite files saved
    opened,         \* history: the URLs opened in the browser
    reqs,           \* history: the requests sent
    dresult,        \* what download returned
    \* ---- PathFormat::format ----
    template,       \* PathFormat.0, the characters of the template
    target,         \* the argument `target`
    keywords,       \* the argument `keywords`
    fresult,        \* what format returned, once it has
    \* ---- submit ----
    sprops,         \* the SubmitProps
    spc,            \* position inside submit
    slang,          \* the local `lang_id`
    slocation,      \* the Location header of the response to the POST, once received
    surl,           \* the local `url`, without its prefix and "/submit"
    sreqs,          \* history: the requests sent
    sresult         \* what submit returned

crlfVars == <<content, entrySide, inCrlfToLf, outCrlfToLf, stored>>
zipVars == <<archive, sortings, tpc, taken, pairs, mutex, zpc, cases, prev, sortIdx, ret,
             written, zresult, crlfVars>>
loginVars == <<valid, credential, cookies, username, assure, lpc, first, result,
               installs, asked, prompts, wrongs, printed, probes, logins>>
downloadVars == <<contestArg, problems, onlyScraped, openInBrowser, solved, dpc, dIdx,
                  listing, outcome, notFound, notPublic, warnings, solvedBatchNos, zips,
                  textFilePaths, extracted, saved, opened, reqs, dresult>>
formatVars == <<template, target, keywords, fresult>>
submitVars == <<sprops, spc, slang, slocation, surl, sreqs, sresult>>
vars == <<zipVars, loginVars, downloadVars, formatVars, submitVars>>

(***************************************************************************)
(* Bounds of the model.                                                    *)
(***************************************************************************)
MaxEntries == 3
MaxSortings == 2
MaxPrompts == 2
MaxLogins == 2

None == << >>
Some(x) == << x >>
IsSome(o) == o # << >>
Unwrap(o) == o[1]

(***************************************************************************)
(* Strings: byte-wise comparison and str::parse::<usize>.                  *)
(***************************************************************************)
Digits == <<"0", "1", "2", "3", "4", "5", "6", "7", "8", "9">>

IsDigit(c) == \E i \in 1..10 : Digits[i] = c

DigitVal(c) == (CHOOSE i \in 1..10 : Digits[i] = c) - 1

\* The UTF-8 byte of the characters that occur in the keys of the model.
Byte(c) ==
    IF IsDigit(c) THEN 48 + DigitVal(c)
    ELSE CASE c = "+" -> 43
           [] c = "_" -> 95
           [] c = "a" -> 97
           [] c = "b" -> 98

RECURSIVE StrCmp(_, _)
\* String::cmp: lexicographic on bytes.
StrCmp(a, b) ==
    IF a = << >> /\ b = << >> THEN "Equal"
    ELSE IF a = << >> THEN "Less"
    ELSE IF b = << >> THEN "Greater"
    ELSE IF Byte(Head(a)) < Byte(Head(b)) THEN "Less"
    ELSE IF Byte(Head(a)) > Byte(Head(b)) THEN "Greater"
    ELSE StrCmp(Tail(a), Tail(b))

RECURSIVE StripZeros(_)
StripZeros(d) == IF d # << >> /\ Head(d) = "0" THEN StripZeros(Tail(d)) ELSE d

\* usize::MAX on a 64-bit target, 18446744073709551615, as decimal digits.
UsizeMax == <<"1", "8", "4", "4", "6", "7", "4", "4", "0", "7",
              "3", "7", "0", "9", "5", "5", "1", "6", "1", "5">>

\* Comparison of two numbers given as decimal digits without leading zeros.
NumCmp(n1, n2) ==
    IF Len(n1) < Len(n2) THEN "Less"
    ELSE IF Len(n1) > Len(n2) THEN "Greater"
    ELSE StrCmp(n1, n2)

\* s.parse::<usize>(): Ok(n) is Some(n), n the digits of the value without
\* leading zeros (<< >> for zero); Err(_) is None.  An empty string, a lone
\* sign, a non-digit and a value above usize::MAX are errors.
ParseUsize(s) ==
    LET d == IF s # << >> /\ Head(s) = "+" THEN Tail(s) ELSE s
    IN  IF d = << >> THEN None
        ELSE IF \E i \in 1..Len(d) : ~IsDigit(d[i]) THEN None
        ELSE IF NumCmp(StripZeros(d), UsizeMax) = "Greater" THEN None
        ELSE Some(StripZeros(d))

(***************************************************************************)
(* The pairing keys of the model.                                          *)
(***************************************************************************)
KeySeq == << <<"0", "2">>,
             <<"2">>,
             <<"1", "0">>,
             <<"a">>,
             <<"1", "8", "4", "4", "6", "7", "4", "4", "0", "7",
               "3", "7", "0", "9", "5", "5", "1", "6", "1", "6">> >>

Keys == {KeySeq[i] : i \in 1..Len(KeySeq)}

\* The keys the archives of the parallel phase are drawn from.
ParKeys == {KeySeq[1], KeySeq[4]}

(***************************************************************************)
(* ZipEntriesSorting and the comparators of the two sort passes.           *)
(***************************************************************************)
ZipEntriesSorting == {"Dictionary", "Number"}

\* A Number comparator that compares the keys as text.
NumberCmpAsText(s1, s2) == StrCmp(s1, s2)

\* The closure handed to sort_by for ZipEntriesSorting::Number.
NumberCmp(s1, s2) ==
    LET p1 == ParseUsize(s1)
        p2 == ParseUsize(s2)
    IN  IF IsSome(p1) /\ IsSome(p2) THEN NumCmp(Unwrap(p1), Unwrap(p2))
        ELSE IF IsSome(p1) THEN "Less"
        ELSE IF IsSome(p2) THEN "Greater"
        ELSE "Equal"

\* The closure handed to sort_by for ZipEntriesSorting::Dictionary.
DictionaryCmp(s1, s2) == StrCmp(s1, s2)

SortingCmp(sorting, s1, s2) ==
    IF sorting = "Dictionary" THEN DictionaryCmp(s1, s2) ELSE NumberCmp(s1, s2)

RECURSIVE InsertStable(_, _, _)
\* x placed after every element that is not greater than it.
InsertStable(sorting, sorted, x) ==
    IF sorted = << >> THEN <<x>>
    ELSE IF SortingCmp(sorting, sorted[Len(sorted)].name, x.name) = "Greater"
         THEN Append(InsertStable(sorting, SubSeq(sorted, 1, Len(sorted) - 1), x),
                     sorted[Len(sorted)])
         ELSE Append(sorted, x)

RECURSIVE SortFrom(_, _, _)
SortFrom(sorting, sorted, rest) ==
    IF rest = << >> THEN sorted
    ELSE SortFrom(sorting, InsertStable(sorting, sorted, Head(rest)), Tail(rest))

\* A sort that hands out equal elements in the reverse of their order in v.
SortByUnstable(sorting, v) ==
    SortFrom(sorting, << >>, [n \in 1..Len(v) |-> v[Len(v) + 1 - n]])

\* slice::sort_by: a stable sort.
SortBy(sorting, v) == SortFrom(sorting, << >>, v)

(***************************************************************************)
(* extract_zip.                                                            *)
(*                                                                         *)
(* An entry of the archive is given by what the two patterns of the        *)
(* descriptor capture in its name: inCap is in_entry.captures(&filename)   *)
(* [in_match_group] and outCap the same for out_entry, None for no match.  *)
(* The artifact (sanitized path, text) of entry i is named by i.           *)
(***************************************************************************)
EntryKinds(keys) ==
    [inCap : {None} \cup {Some(k) : k \in keys},
     outCap : {None} \cup {Some(k) : k \in keys}]

RECURSIVE SeqsUpTo(_, _)
\* All sequences over S of length at most n.
SeqsUpTo(S, n) ==
    IF n = 0 THEN {<< >>}
    ELSE LET shorter == SeqsUpTo(S, n - 1)
         IN  shorter \cup {Append(s, x) : s \in {t \in shorter : Len(t) = n - 1}, x \in S}

\* sortings of the only descriptor of the repository.
ZIP_ENTRIES == [sortings |-> <<"Dictionary", "Number">>]

Tasks == 1..Len(archive)

\* A task that tries the output pattern first.
SideOutputFirst(i) ==
    IF IsSome(archive[i].outCap) THEN "out"
    ELSE IF IsSome(archive[i].inCap) THEN "in"
    ELSE "none"

\* Which branch of the if / else-if the task of entry i takes.
Side(i) ==
    IF IsSome(archive[i].inCap) THEN "in"
    ELSE IF IsSome(archive[i].outCap) THEN "out"
    ELSE "none"

\* The local `name` of the task of entry i.
Name(i) ==
    IF IsSome(archive[i].inCap) THEN Unwrap(archive[i].inCap)
    ELSE Unwrap(archive[i].outCap)

EmptyMap == [k \in Keys |-> None]

\* by_index, string_from_read and the two captures: no shared state is read.
Read(i) ==
    /\ zpc = "par"
    /\ tpc[i] = "start"
    /\ tpc' = [tpc EXCEPT ![i] = IF Side(i) = "none" THEN "done" ELSE "matched"]
    /\ UNCHANGED <<archive, sortings, taken, pairs, mutex, zpc, cases, prev, sortIdx, ret>>
    /\ UNCHANGED <<written, zresult, crlfVars, loginVars, downloadVars, formatVars, submitVars>>

\* A lock that excludes nobody.
CanLockAlways == TRUE

\* Mutex::lock succeeds only while no task holds the guard.
CanLock == mutex = None

Lock(i) ==
    /\ zpc = "par"
    /\ tpc[i] = "matched"
    /\ CanLock
    /\ mutex' = Some(i)
    /\ tpc' = [tpc EXCEPT ![i] = "locked"]
    /\ UNCHANGED <<archive, sortings, taken, pairs, zpc, cases, prev, sortIdx, ret>>
    /\ UNCHANGED <<written, zresult, crlfVars, loginVars, downloadVars, formatVars, submitVars>>

\* pairs.remove(&name)
Remove(i) ==
    /\ zpc = "par"
    /\ tpc[i] = "locked"
    /\ taken' = [taken EXCEPT ![i] = pairs[Name(i)]]
    /\ pairs' = [pairs EXCEPT ![Name(i)] = None]
    /\ tpc' = [tpc EXCEPT ![i] = "removed"]
    /\ UNCHANGED <<archive, sortings, mutex, zpc, cases, prev, sortIdx, ret>>
    /\ UNCHANGED <<written, zresult, crlfVars, loginVars, downloadVars, formatVars, submitVars>>

\* A merge that forgets the side stored before.
MergedForgetting(i, old) ==
    IF Side(i) = "in"
    THEN [input |-> Some(i), output |-> None]
    ELSE [input |-> None, output |-> Some(i)]

\* The value the task of entry i inserts, given what it removed.
Merged(i, old) ==
    IF Side(i) = "in"
    THEN [input |-> Some(i), output |-> IF IsSome(old) THEN Unwrap(old).output ELSE None]
    ELSE [input |-> IF IsSome(old) THEN Unwrap(old).input ELSE None, output |-> Some(i)]

\* An insert after which the guard is never dropped.
InsertKeepingLock(i) ==
    /\ zpc = "par"
    /\ tpc[i] = "removed"
    /\ pairs' = [pairs EXCEPT ![Name(i)] = Some(Merged(i, taken[i]))]
    /\ tpc' = [tpc EXCEPT ![i] = "done"]
    /\ UNCHANGED <<archive, sortings, taken, mutex, zpc, cases, prev, sortIdx, ret>>
    /\ UNCHANGED <<written, zresult, crlfVars, loginVars, downloadVars, formatVars, submitVars>>

\* pairs.insert(name, ..), then the guard is dropped at the end of the block.
Insert(i) ==
    /\ zpc = "par"
    /\ tpc[i] = "removed"
    /\ pairs' = [pairs EXCEPT ![Name(i)] = Some(Merged(i, taken[i]))]
    /\ mutex' = None
    /\ tpc' = [tpc EXCEPT ![i] = "done"]
    /\ UNCHANGED <<archive, sortings, taken, zpc, cases, prev, sortIdx, ret>>
    /\ UNCHANGED <<written, zresult, crlfVars, loginVars, downloadVars, formatVars, submitVars>>

\* The keys of the map whose value has both sides.
Complete(m) ==
    {k \in Keys : IsSome(m[k]) /\ IsSome(Unwrap(m[k]).input) /\ IsSome(Unwrap(m[k]).output)}

\* All orders in which a HashMap may hand out the keys in S.
Orders(S) ==
    {o \in [1..Cardinality(S) -> S] : \A a, b \in 1..Cardinality(S) : a # b => o[a] # o[b]}

\* A closure whose error is dropped.
TaskOkOrErr(i) == tpc[i] \in {"done", "failed"}

\* The closure of entry i has returned Ok(()).
TaskOk(i) == tpc[i] = "done"

\* A collect that returns as soon as one task has finished.
JoinedAny == \E i \in Tasks : TaskOk(i)

\* collect::<ZipResult<()>>() returns Ok once every closure has returned Ok.
Joined == \A i \in Tasks : TaskOk(i)

\* collect() has joined every task; the map is taken out and filtered into
\* `cases`, in the iteration order of the HashMap.
Drain ==
    /\ zpc = "par"
    /\ Joined
    /\ \E o \in Orders(Complete(pairs)) :
          cases' = [n \in 1..Len(o) |->
                       [name |-> o[n],
                        input |-> Unwrap(Unwrap(pairs[o[n]]).input),
                        output |-> Unwrap(Unwrap(pairs[o[n]]).output)]]
    /\ prev' = cases'
    /\ pairs' = EmptyMap
    /\ sortIdx' = 1
    /\ zpc' = "sort"
    /\ UNCHANGED <<archive, sortings, tpc, taken, mutex, ret>>
    /\ UNCHANGED <<written, zresult, crlfVars, loginVars, downloadVars, formatVars, submitVars>>

\* One iteration of `for sorting in sortings`.
SortPass ==
    /\ zpc = "sort"
    /\ sortIdx <= Len(sortings)
    /\ prev' = cases
    /\ cases' = SortBy(sortings[sortIdx], cases)
    /\ sortIdx' = sortIdx + 1
    /\ UNCHANGED <<archive, sortings, tpc, taken, pairs, mutex, zpc, ret>>
    /\ UNCHANGED <<written, zresult, crlfVars, loginVars, downloadVars, formatVars, submitVars>>

\* A write loop that writes the output of a case before its input.
FilesOfOutputFirst(v) ==
    [m \in 1..(2 * Len(v)) |->
        IF m % 2 = 1 THEN v[(m + 1) \div 2].output ELSE v[m \div 2].input]

\* The artifacts the write loop writes for the cases v, in order: for each
\* case the input, then the output.
FilesOf(v) ==
    [m \in 1..(2 * Len(v)) |->
        IF m % 2 = 1 THEN v[(m + 1) \div 2].input ELSE v[m \div 2].output]

\* The files of every case are written in order, no write fails, and the
\* names are returned.
WriteAll ==
    /\ zpc = "sort"
    /\ sortIdx > Len(sortings)
    /\ written' = [m \in 1..(2 * Len(cases)) |-> [file |-> FilesOf(cases)[m], whole |-> TRUE]]
    /\ ret' = [n \in 1..Len(cases) |-> cases[n].name]
    /\ zresult' = "Ok"
    /\ zpc' = "done"
    /\ UNCHANGED <<archive, sortings, tpc, taken, pairs, mutex, cases, prev, sortIdx>>
    /\ UNCHANGED <<crlfVars, loginVars, downloadVars, formatVars, submitVars>>

LoginIdle ==
    /\ valid = {}
    /\ credential = None
    /\ cookies = {}
    /\ username = None
    /\ assure = FALSE
    /\ lpc = "idle"
    /\ first = FALSE
    /\ result = "none"
    /\ installs = << >>
    /\ asked = << >>
    /\ prompts = 0
    /\ wrongs = 0
    /\ printed = << >>
    /\ probes = << >>
    /\ logins = 0

\* No entry text is being stored.
CrlfIdle ==
    /\ content = << >>
    /\ entrySide = "none"
    /\ inCrlfToLf = FALSE
    /\ outCrlfToLf = FALSE
    /\ stored = None

SubmitIdle ==
    /\ sprops = << >>
    /\ spc = "idle"
    /\ slang = None
    /\ slocation = None
    /\ surl = None
    /\ sreqs = << >>
    /\ sresult = "none"

FormatIdle ==
    /\ template = << >>
    /\ target = << >>
    /\ keywords = {}
    /\ fresult = None

DownloadQuiet ==
    /\ contestArg = << >>
    /\ problems = None
    /\ onlyScraped = FALSE
    /\ openInBrowser = FALSE
    /\ dpc = "idle"
    /\ dIdx = 1
    /\ listing = << >>
    /\ outcome = << >>
    /\ notFound = << >>
    /\ notPublic = << >>
    /\ warnings = << >>
    /\ solvedBatchNos = << >>
    /\ zips = << >>
    /\ textFilePaths = << >>
    /\ extracted = << >>
    /\ saved = << >>
    /\ opened = << >>
    /\ reqs = << >>
    /\ dresult = "none"

DownloadIdle == solved = {} /\ DownloadQuiet

\* extract_zip is entered with an archive and the descriptor ZIP_ENTRIES.
Init ==
    /\ archive \in SeqsUpTo(EntryKinds(ParKeys), MaxEntries)
    /\ sortings = ZIP_ENTRIES.sortings
    /\ tpc = [i \in 1..Len(archive) |-> "start"]
    /\ taken = [i \in 1..Len(archive) |-> None]
    /\ pairs = EmptyMap
    /\ mutex = None
    /\ zpc = "par"
    /\ cases = << >>
    /\ prev = << >>
    /\ sortIdx = 1
    /\ ret = << >>
    /\ written = << >>
    /\ zresult = "running"
    /\ CrlfIdle
    /\ LoginIdle
    /\ DownloadIdle
    /\ FormatIdle
    /\ SubmitIdle

Next ==
    \/ \E i \in Tasks : Read(i)
    \/ \E i \in Tasks : Lock(i)
    \/ \E i \in Tasks : Remove(i)
    \/ \E i \in Tasks : Insert(i)
    \/ Drain
    \/ SortPass
    \/ WriteAll

Spec == Init /\ [][Next]_vars

(***************************************************************************)
(* The sequential part of extract_zip, from the point where collect() has  *)
(* joined the entry tasks: the archive holds at most one entry per key and *)
(* side, every task has finished, and the descriptor has any sortings.     *)
(***************************************************************************)
KeySides == {"none", "in", "out", "both"}

EntriesOf(side, k) ==
    CASE side = "none" -> << >>
      [] side = "in" -> << [inCap |-> Some(k), outCap |-> None] >>
      [] side = "out" -> << [inCap |-> None, outCap |-> Some(k)] >>
      [] side = "both" -> << [inCap |-> Some(k), outCap |-> None],
                             [inCap |-> None, outCap |-> Some(k)] >>

RECURSIVE ArchiveOf(_, _)
\* The archive with the entries that f gives to each of the first n keys.
ArchiveOf(f, n) ==
    IF n = 0 THEN << >>
    ELSE ArchiveOf(f, n - 1) \o EntriesOf(f[KeySeq[n]], KeySeq[n])

\* The map once every task of archive a has merged, when no two entries of a
\* have the same key on the same side.
MapOf(a) ==
    [k \in Keys |->
        LET ins == {i \in 1..Len(a) : a[i].inCap = Some(k)}
            outs == {i \in 1..Len(a) : a[i].inCap = None /\ a[i].outCap = Some(k)}
        IN  IF ins \cup outs = {} THEN None
            ELSE Some([input |-> IF ins = {} THEN None ELSE Some(CHOOSE i \in ins : TRUE),
                       output |-> IF outs = {} THEN None ELSE Some(CHOOSE i \in outs : TRUE)])]

InitSort ==
    /\ \E f \in [Keys -> KeySides] : archive = ArchiveOf(f, Len(KeySeq))
    /\ sortings \in SeqsUpTo(ZipEntriesSorting, MaxSortings)
    /\ tpc = [i \in 1..Len(archive) |-> "done"]
    /\ taken = [i \in 1..Len(archive) |-> None]
    /\ pairs = MapOf(archive)
    /\ mutex = None
    /\ zpc = "par"
    /\ cases = << >>
    /\ prev = << >>
    /\ sortIdx = 1
    /\ ret = << >>
    /\ written = << >>
    /\ zresult = "running"
    /\ CrlfIdle
    /\ LoginIdle
    /\ DownloadIdle
    /\ FormatIdle
    /\ SubmitIdle

NextSort ==
    \/ Drain
    \/ SortPass
    \/ WriteAll

SpecSort == InitSort /\ [][NextSort]_vars

(***************************************************************************)
(* extract_zip with an archive that may fail to open and entries that may  *)
(* fail to be read or decoded.                                             *)
(***************************************************************************)
MaxReadEntries == 2

\* The two writes and the flush of "<name>: Unzipping...".
PrintUnzipping ==
    /\ zpc = "enter"
    /\ \/ zpc' = "open" /\ UNCHANGED zresult
       \/ zpc' = "done" /\ zresult' = "Err(IO)"
    /\ UNCHANGED <<archive, sortings, tpc, taken, pairs, mutex, cases, prev, sortIdx, ret,
                   written>>
    /\ UNCHANGED <<crlfVars, loginVars, downloadVars, formatVars, submitVars>>

\* ZipArchive::new(..) is Ok: the central directory was read.
OpenArchive ==
    /\ zpc = "open"
    /\ zpc' = "par"
    /\ UNCHANGED <<archive, sortings, tpc, taken, pairs, mutex, cases, prev, sortIdx, ret,
                   written, zresult>>
    /\ UNCHANGED <<crlfVars, loginVars, downloadVars, formatVars, submitVars>>

\* ZipArchive::new(..) is Err: with_context(ReadZip) and `?`.
OpenFail ==
    /\ zpc = "open"
    /\ zresult' = "Err(ReadZip)"
    /\ zpc' = "done"
    /\ UNCHANGED <<archive, sortings, tpc, taken, pairs, mutex, cases, prev, sortIdx, ret,
                   written>>
    /\ UNCHANGED <<crlfVars, loginVars, downloadVars, formatVars, submitVars>>

\* by_index(i) or string_from_read(..) is Err: the closure returns the error
\* before it matches the name.
ReadFail(i) ==
    /\ zpc = "par"
    /\ tpc[i] = "start"
    /\ tpc' = [tpc EXCEPT ![i] = "failed"]
    /\ UNCHANGED <<archive, sortings, taken, pairs, mutex, zpc, cases, prev, sortIdx, ret,
                   written, zresult>>
    /\ UNCHANGED <<crlfVars, loginVars, downloadVars, formatVars, submitVars>>

\* collect::<ZipResult<()>>() is Err: some closure returned an error and no
\* closure is running (one that has not started may never be run);
\* with_context(ReadZip) and `?`.
Abort ==
    /\ zpc = "par"
    /\ \E i \in Tasks : tpc[i] = "failed"
    /\ \A i \in Tasks : tpc[i] \in {"start", "done", "failed"}
    /\ zresult' = "Err(ReadZip)"
    /\ zpc' = "done"
    /\ UNCHANGED <<archive, sortings, tpc, taken, pairs, mutex, cases, prev, sortIdx, ret,
                   written>>
    /\ UNCHANGED <<crlfVars, loginVars, downloadVars, formatVars, submitVars>>

InitRead ==
    /\ archive \in SeqsUpTo(EntryKinds(ParKeys), MaxReadEntries)
    /\ sortings = ZIP_ENTRIES.sortings
    /\ tpc = [i \in 1..Len(archive) |-> "start"]
    /\ taken = [i \in 1..Len(archive) |-> None]
    /\ pairs = EmptyMap
    /\ mutex = None
    /\ zpc = "enter"
    /\ cases = << >>
    /\ prev = << >>
    /\ sortIdx = 1
    /\ ret = << >>
    /\ written = << >>
    /\ zresult = "running"
    /\ CrlfIdle
    /\ LoginIdle
    /\ DownloadIdle
    /\ FormatIdle
    /\ SubmitIdle

NextRead ==
    \/ PrintUnzipping
    \/ OpenArchive
    \/ OpenFail
    \/ \E i \in Tasks : Read(i)
    \/ \E i \in Tasks : ReadFail(i)
    \/ \E i \in Tasks : Lock(i)
    \/ \E i \in Tasks : Remove(i)
    \/ \E i \in Tasks : Insert(i)
    \/ Abort
    \/ Drain
    \/ SortPass
    \/ WriteAll

SpecRead == InitRead /\ [][NextRead]_vars

(***************************************************************************)
(* The parallel phase under a fair scheduler: a rayon worker that has taken *)
(* a task runs its closure to the end, a thread blocked in Mutex::lock is   *)
(* woken once the lock is free and stays free, and collect returns once no  *)
(* closure is left to run.                                                  *)
(***************************************************************************)
MaxFairEntries == 2

\* A step of the task of entry i.
TaskStep(i) ==
    /\ i \in Tasks
    /\ Read(i) \/ ReadFail(i) \/ Lock(i) \/ Remove(i) \/ Insert(i)

\* collect returns, with Ok or with the error of a closure.
Collect == Drain \/ Abort

InitFair ==
    /\ archive \in SeqsUpTo(EntryKinds(ParKeys), MaxFairEntries)
    /\ sortings = ZIP_ENTRIES.sortings
    /\ tpc = [i \in 1..Len(archive) |-> "start"]
    /\ taken = [i \in 1..Len(archive) |-> None]
    /\ pairs = EmptyMap
    /\ mutex = None
    /\ zpc = "par"
    /\ cases = << >>
    /\ prev = << >>
    /\ sortIdx = 1
    /\ ret = << >>
    /\ written = << >>
    /\ zresult = "running"
    /\ CrlfIdle
    /\ LoginIdle
    /\ DownloadIdle
    /\ FormatIdle
    /\ SubmitIdle

NextFair ==
    \/ \E i \in Tasks : Read(i)
    \/ \E i \in Tasks : ReadFail(i)
    \/ \E i \in Tasks : Lock(i)
    \/ \E i \in Tasks : Remove(i)
    \/ \E i \in Tasks : Insert(i)
    \/ Drain
    \/ Abort

SpecFair ==
    /\ InitFair
    /\ [][NextFair]_vars
    /\ \A i \in 1..MaxFairEntries : WF_vars(TaskStep(i))
    /\ WF_vars(Collect)

(***************************************************************************)
(* The write loop of extract_zip, file by file, from the point where       *)
(* collect() has joined the entry tasks.  An element of `written` is the   *)
(* artifact of an entry and whether all of its text is in the file.        *)
(***************************************************************************)
MaxWriteKeys == 3

WriteKeys == {KeySeq[n] : n \in 1..MaxWriteKeys}

Writing == zpc = "sort" /\ sortIdx > Len(sortings)

\* fs::write is Ok for the next file of the loop.
WriteFile ==
    /\ Writing
    /\ Len(written) < 2 * Len(cases)
    /\ written' = Append(written, [file |-> FilesOf(cases)[Len(written) + 1], whole |-> TRUE])
    /\ UNCHANGED <<archive, sortings, tpc, taken, pairs, mutex, zpc, cases, prev, sortIdx, ret,
                   zresult>>
    /\ UNCHANGED <<crlfVars, loginVars, downloadVars, formatVars, submitVars>>

\* fs::write is Err for the next file of the loop: the directory or the file
\* could not be created, or the file was created and write_all failed.  The
\* `?` returns the error; nothing is removed.
WriteFail ==
    /\ Writing
    /\ Len(written) < 2 * Len(cases)
    /\ \/ UNCHANGED written
       \/ written' = Append(written, [file |-> FilesOf(cases)[Len(written) + 1],
                                      whole |-> FALSE])
    /\ zresult' = "Err(Write)"
    /\ zpc' = "done"
    /\ UNCHANGED <<archive, sortings, tpc, taken, pairs, mutex, cases, prev, sortIdx, ret>>
    /\ UNCHANGED <<crlfVars, loginVars, downloadVars, formatVars, submitVars>>

\* A collect that hands back the names last first.
RetOfReversed(v) == [n \in 1..Len(v) |-> v[Len(v) + 1 - n].name]

\* `Ok((name, in_path, out_path))` collected over `cases`: the names, each
\* with the two paths of its case, in the order of `cases`.
RetOf(v) == [n \in 1..Len(v) |-> v[n].name]

\* Every file is written: "<name>: Saved N files to <dir>" is printed and
\* the names are returned, or the print fails.
Return ==
    /\ Writing
    /\ Len(written) = 2 * Len(cases)
    /\ \/ ret' = RetOf(cases) /\ zresult' = "Ok"
       \/ zresult' = "Err(IO)" /\ UNCHANGED ret
    /\ zpc' = "done"
    /\ UNCHANGED <<archive, sortings, tpc, taken, pairs, mutex, cases, prev, sortIdx,
                   written>>
    /\ UNCHANGED <<crlfVars, loginVars, downloadVars, formatVars, submitVars>>

InitWrite ==
    /\ \E f \in [Keys -> KeySides] :
          /\ \A k \in Keys \ WriteKeys : f[k] = "none"
          /\ archive = ArchiveOf(f, Len(KeySeq))
    /\ sortings = ZIP_ENTRIES.sortings
    /\ tpc = [i \in 1..Len(archive) |-> "done"]
    /\ taken = [i \in 1..Len(archive) |-> None]
    /\ pairs = MapOf(archive)
    /\ mutex = None
    /\ zpc = "par"
    /\ cases = << >>
    /\ prev = << >>
    /\ sortIdx = 1
    /\ ret = << >>
    /\ written = << >>
    /\ zresult = "running"
    /\ CrlfIdle
    /\ LoginIdle
    /\ DownloadIdle
    /\ FormatIdle
    /\ SubmitIdle

NextWrite ==
    \/ Drain
    \/ SortPass
    \/ WriteFile
    \/ WriteFail
    \/ Return

SpecWrite == InitWrite /\ [][NextWrite]_vars

(***************************************************************************)
(* Yukicoder::login.                                                       *)
(*                                                                         *)
(* The remote service answers the request of fetch_username with a page    *)
(* that shows a user exactly when the REVEL_SESSION cookie sent is one it  *)
(* accepts; a request may also fail in transport.  What the user types is  *)
(* an input of the step that reads it.                                     *)
(***************************************************************************)
Tokens == {"s1", "s2"}

ZipQuiet ==
    /\ archive = << >>
    /\ sortings = << >>
    /\ tpc = << >>
    /\ taken = << >>
    /\ pairs = EmptyMap
    /\ mutex = None
    /\ zpc = "idle"
    /\ cases = << >>
    /\ prev = << >>
    /\ sortIdx = 1
    /\ ret = << >>
    /\ written = << >>
    /\ zresult = "none"

ZipIdle == ZipQuiet /\ CrlfIdle

(***************************************************************************)
(* The text of an entry on its way into the map: the branch of the entry   *)
(* task that follows the match of one of the two patterns.  A text is a     *)
(* sequence of characters, of which the carriage return, the line feed and  *)
(* one other are told apart.                                                *)
(***************************************************************************)
MaxContent == 3

ContentChars == {"\r", "\n", "x"}

\* content.contains("\r\n")
ContainsCrlf(s) == \E i \in 1..(Len(s) - 1) : s[i] = "\r" /\ s[i + 1] = "\n"

RECURSIVE ReplaceCrlf(_)
\* content.replace("\r\n", "\n"): the matches are found from left to right
\* in the original text and do not overlap.
ReplaceCrlf(s) ==
    IF s = << >> THEN << >>
    ELSE IF Len(s) >= 2 /\ s[1] = "\r" /\ s[2] = "\n"
         THEN <<"\n">> \o ReplaceCrlf(SubSeq(s, 3, Len(s)))
         ELSE <<Head(s)>> \o ReplaceCrlf(Tail(s))

\* `if *crlf_to_lf && content.contains("\r\n") { content.replace(..) } else { content }`
CrlfToLf(flag, s) == IF flag /\ ContainsCrlf(s) THEN ReplaceCrlf(s) ELSE s

\* The branch of the pattern the name matched: the text is normalized with
\* the flag of that side and put into the map.
StoreEntry ==
    /\ entrySide \in {"in", "out"}
    /\ stored = None
    /\ stored' = Some(IF entrySide = "in" THEN CrlfToLf(inCrlfToLf, content)
                                          ELSE CrlfToLf(outCrlfToLf, content))
    /\ UNCHANGED <<content, entrySide, inCrlfToLf, outCrlfToLf>>
    /\ UNCHANGED <<archive, sortings, tpc, taken, pairs, mutex, zpc, cases, prev, sortIdx, ret,
                   written, zresult>>
    /\ UNCHANGED <<loginVars, downloadVars, formatVars, submitVars>>

\* An entry whose name matched a pattern has been read.
InitCrlf ==
    /\ \E n \in 0..MaxContent : content \in [1..n -> ContentChars]
    /\ entrySide \in {"in", "out"}
    /\ inCrlfToLf \in BOOLEAN
    /\ outCrlfToLf \in BOOLEAN
    /\ stored = None
    /\ ZipQuiet
    /\ LoginIdle
    /\ DownloadIdle
    /\ FormatIdle
    /\ SubmitIdle

NextCrlf == StoreEntry

SpecCrlf == InitCrlf /\ [][NextCrlf]_vars

\* HttpSession::clear_cookies
ClearCookies(jar) == {}

\* HttpSession::insert_cookie, of Cookie::new("REVEL_SESSION", revel_session)
InsertCookie(jar, revel_session) == jar \cup {revel_session}

\* A take that leaves the credential in place, as clone would.
TakeLeavesValue(c) == c

\* RevelSession::take: the value left behind in self.credential.
TakeLeaves(c) == None

\* extract_username of the page the service returns to a request with `jar`.
ExtractUsername(jar) ==
    IF jar \cap valid = {} THEN None ELSE Some(CHOOSE t \in jar \cap valid : TRUE)

\* Username::name
UsernameName(u) == u

\* A Display that has one form only.
UsernameFmtAnonymous(u) == <<"<not logged in>">>

\* Display of Username
UsernameFmt(u) == IF IsSome(u) THEN <<"user", Unwrap(u)>> ELSE <<"<not logged in>">>

\* The tail of login: the line "Username: ..." is written and Ok(()) returned.
ReturnOk(u) ==
    /\ printed' = Append(printed, UsernameFmt(u))
    /\ result' = "Ok"
    /\ lpc' = "done"

ReturnErr(e) ==
    /\ result' = e
    /\ lpc' = "done"
    /\ UNCHANGED printed

\* A failed stored credential that is let through to the loop.
NeverReturnsLoginOnTest(a, confirmed) == FALSE

\* A failed stored credential that is an error under assure only.
ReturnsLoginOnTestUnderAssure(a, confirmed) == a /\ ~confirmed

\* `if !self.confirm_revel_session(revel_session)? { return Err(LoginOnTest) }`,
\* in a call login(a) whose confirm_revel_session returned Ok(confirmed).
ReturnsLoginOnTest(a, confirmed) == ~confirmed

\* A loop that is entered whoever is logged in.
EntersLoopAlways(u) == TRUE

\* `if self.username.name().is_none()`: whether the loop is entered.
EntersLoop(u) == ~IsSome(UsernameName(u))

\* A first iteration that asks whatever assure is.
AsksFirstAlways(a) == TRUE

\* `!assure && ..`: whether the first iteration of login(a) asks "Login? ".
AsksFirst(a) == ~a

\* An answer that never breaks the loop.
BreaksNever(answer) == FALSE

\* `!self.ask_yes_or_no("Login? ", true)?`: whether the answer breaks the loop.
Breaks(answer) == answer = "no"

\* A prompted credential that never ends the loop.
LeavesLoopNever(confirmed) == FALSE

\* `if self.confirm_revel_session(revel_session)? { break; }`: whether the
\* loop is left after a prompted credential whose probe returned `confirmed`.
LeavesLoop(confirmed) == confirmed

\* An installation that keeps the cookies the jar already holds.
InstallKeepingJar(jar, revel_session) == InsertCookie(jar, revel_session)

\* The first half of confirm_revel_session: clear_cookies, then insert_cookie
\* of the cookie REVEL_SESSION=revel_session.
InstallRevelSession(jar, revel_session) == InsertCookie(ClearCookies(jar), revel_session)

\* login(assure) is called: self.credential.take(), and for Some(revel_session)
\* the first half of confirm_revel_session (the jar is cleared and the cookie
\* inserted), up to the request of fetch_username.
CallLogin(a) ==
    /\ lpc \in {"idle", "done"}
    /\ logins < MaxLogins
    /\ logins' = logins + 1
    /\ assure' = a
    /\ result' = "running"
    /\ first' = FALSE
    /\ asked' = << >>
    /\ prompts' = 0
    /\ wrongs' = 0
    /\ printed' = << >>
    /\ probes' = << >>
    /\ credential' = TakeLeaves(credential)
    /\ IF IsSome(credential)
       THEN /\ cookies' = InstallRevelSession(cookies, Unwrap(credential))
            /\ installs' = Append(installs, [token |-> Unwrap(credential),
                                             from |-> "stored", call |-> logins'])
            /\ lpc' = "confirm_stored"
       ELSE /\ lpc' = "fetch"
            /\ UNCHANGED <<cookies, installs>>
    /\ UNCHANGED <<valid, username>>
    /\ UNCHANGED <<zipVars, downloadVars, formatVars, submitVars>>

\* The response to the request of confirm_revel_session(stored credential).
ConfirmStored ==
    /\ lpc = "confirm_stored"
    /\ \E sent \in BOOLEAN :
          IF ~sent
          THEN /\ probes' = Append(probes, [of |-> "stored", got |-> "error"])
               /\ ReturnErr("Err(Transport)")
               /\ UNCHANGED username
          ELSE /\ username' = ExtractUsername(cookies)
               /\ probes' = Append(probes, [of |-> "stored",
                                            got |-> IF IsSome(username') THEN "known" ELSE "none"])
               /\ IF ReturnsLoginOnTest(assure, IsSome(UsernameName(username')))
                  THEN ReturnErr("Err(LoginOnTest)")
                  ELSE lpc' = "fetch" /\ UNCHANGED <<result, printed>>
    /\ UNCHANGED <<valid, credential, cookies, assure, first, installs, asked, prompts,
                   wrongs, logins>>
    /\ UNCHANGED <<zipVars, downloadVars, formatVars, submitVars>>

\* self.fetch_username()? and the test that opens the loop.
Fetch ==
    /\ lpc = "fetch"
    /\ \E sent \in BOOLEAN :
          IF ~sent
          THEN /\ probes' = Append(probes, [of |-> "session", got |-> "error"])
               /\ ReturnErr("Err(Transport)")
               /\ UNCHANGED <<username, first>>
          ELSE /\ username' = ExtractUsername(cookies)
               /\ probes' = Append(probes, [of |-> "session",
                                            got |-> IF IsSome(username') THEN "known" ELSE "none"])
               /\ IF EntersLoop(username')
                  THEN /\ first' = TRUE
                       /\ lpc' = "loop"
                       /\ UNCHANGED <<result, printed>>
                  ELSE /\ ReturnOk(username')
                       /\ UNCHANGED first
    /\ UNCHANGED <<valid, credential, cookies, assure, installs, asked, prompts, wrongs, logins>>
    /\ UNCHANGED <<zipVars, downloadVars, formatVars, submitVars>>

\* prompt_password_stderr("REVEL_SESSION: ") and the first half of
\* confirm_revel_session, up to its request.
Prompt ==
    /\ prompts < MaxPrompts
    /\ prompts' = prompts + 1
    /\ \E typed \in Tokens \cup {"io error"} :
          IF typed = "io error"
          THEN /\ ReturnErr("Err(IO)")
               /\ UNCHANGED <<cookies, installs>>
          ELSE /\ cookies' = InstallRevelSession(cookies, typed)
               /\ installs' = Append(installs, [token |-> typed,
                                                from |-> "prompt", call |-> logins])
               /\ lpc' = "confirm_prompted"
               /\ UNCHANGED <<result, printed>>

\* One iteration of the loop, up to the request of confirm_revel_session.
LoopIteration ==
    /\ lpc = "loop"
    /\ IF first
       THEN /\ first' = FALSE
            /\ IF AsksFirst(assure)
               THEN \E answer \in {"yes", "no", "io error"} :
                       /\ asked' = Append(asked, answer)
                       /\ IF answer = "io error"
                          THEN /\ ReturnErr("Err(IO)")
                               /\ UNCHANGED <<cookies, installs, prompts>>
                          ELSE IF Breaks(answer)
                          THEN /\ ReturnOk(username)
                               /\ UNCHANGED <<cookies, installs, prompts>>
                          ELSE Prompt
               ELSE /\ UNCHANGED asked
                    /\ Prompt
       ELSE /\ UNCHANGED <<first, asked>>
            /\ Prompt
    /\ UNCHANGED <<valid, credential, username, assure, wrongs, probes, logins>>
    /\ UNCHANGED <<zipVars, downloadVars, formatVars, submitVars>>

\* The response to the request of confirm_revel_session(typed credential).
ConfirmPrompted ==
    /\ lpc = "confirm_prompted"
    /\ \E sent \in BOOLEAN :
          IF ~sent
          THEN /\ probes' = Append(probes, [of |-> "prompt", got |-> "error"])
               /\ ReturnErr("Err(Transport)")
               /\ UNCHANGED <<username, wrongs>>
          ELSE /\ username' = ExtractUsername(cookies)
               /\ probes' = Append(probes, [of |-> "prompt",
                                            got |-> IF IsSome(username') THEN "known" ELSE "none"])
               /\ IF LeavesLoop(IsSome(UsernameName(username')))
                  THEN /\ ReturnOk(username')
                       /\ UNCHANGED wrongs
                  ELSE /\ wrongs' = wrongs + 1
                       /\ lpc' = "loop"
                       /\ UNCHANGED <<result, printed>>
    /\ UNCHANGED <<valid, credential, cookies, assure, first, installs, asked, prompts, logins>>
    /\ UNCHANGED <<zipVars, downloadVars, formatVars, submitVars>>

\* Yukicoder::try_new: the credential of the configuration is cloned, the
\* cookie jar is loaded from the cookie file and the username is None.
InitLogin ==
    /\ valid \in SUBSET Tokens
    /\ credential \in {None} \cup {Some(t) : t \in Tokens}
    /\ cookies \in {{}} \cup {{t} : t \in Tokens}
    /\ username = None
    /\ assure = FALSE
    /\ lpc = "idle"
    /\ first = FALSE
    /\ result = "none"
    /\ installs = << >>
    /\ asked = << >>
    /\ prompts = 0
    /\ wrongs = 0
    /\ printed = << >>
    /\ probes = << >>
    /\ logins = 0
    /\ ZipIdle
    /\ DownloadIdle
    /\ FormatIdle
    /\ SubmitIdle

NextLogin ==
    \/ \E a \in BOOLEAN : CallLogin(a)
    \/ ConfirmStored
    \/ Fetch
    \/ LoopIteration
    \/ ConfirmPrompted

SpecLogin == InitLogin /\ [][NextLogin]_vars

(***************************************************************************)
(* Yukicoder::download.                                                    *)
(*                                                                         *)
(* The call self.login(false) is taken by its returns, which SpecLogin     *)
(* explores.  The remote service answers every request with any response   *)
(* the code distinguishes, or the request fails; within a run it answers   *)
(* the same page the same way, and its list of solved problems is fixed.   *)
(* A URL is named by its last path segment, an archive by the segment of   *)
(* the URL it was fetched from, and a failed request has status 0.         *)
(***************************************************************************)
MaxProblems == 2

\* The problem numbers of the remote service, and u64::to_string of them.
Nos == {1, 2}
U64ToString(n) == <<"1", "2">>[n]

\* Names of problems: identifiers of direct mode and names of a listing.
Names == {"1", "2", "A"}

\* The contest strings of the model: "no", "No" and "100".
ContestArgs == {<<"n", "o">>, <<"N", "o">>, <<"1", "0", "0">>}

ToAsciiLowercase(c) ==
    CASE c = "N" -> "n"
      [] c = "O" -> "o"
      [] OTHER -> c

\* str::eq_ignore_ascii_case
EqIgnoreAsciiCase(s, t) ==
    /\ Len(s) = Len(t)
    /\ \A i \in 1..Len(s) : ToAsciiLowercase(s[i]) = ToAsciiLowercase(t[i])

\* A from_string that compares the cases too.
FromStringExact(s) == IF s = <<"n", "o">> THEN "No" ELSE "Contest"

\* YukicoderContest::from_string: the variant of the contest.
FromString(s) == IF EqIgnoreAsciiCase(s, <<"n", "o">>) THEN "No" ELSE "Contest"

\* What extract_samples finds on a problem page: the kind of the problem, or
\* a page it cannot scrape.
SampleKinds == {"Regular", "Special", "Reactive", "Broken"}

BatchSuite(matching, caseSource) ==
    [kind |-> "Batch", matching |-> matching, cases |-> caseSource]
InteractiveSuite == [kind |-> "Interactive", matching |-> "-", cases |-> << >>]
Unsubmittable == [kind |-> "Unsubmittable", matching |-> "-", cases |-> << >>]

\* The cases a scraped batch suite holds.
Inline == <<"inline">>

\* extract_samples: Regular and Special give a BatchSuite (Special with
\* Match::Any), Reactive an InteractiveSuite.
ExtractSamples(k) ==
    CASE k = "Regular" -> Some(BatchSuite("Exact", Inline))
      [] k = "Special" -> Some(BatchSuite("Any", Inline))
      [] k = "Reactive" -> Some(InteractiveSuite)
      [] OTHER -> None

\* BatchSuite::without_cases().paths(paths)
WithoutCasesPaths(suite, paths) == [suite EXCEPT !.cases = <<"paths", paths>>]

\* The responses to GET /problems/no/{problem} that pass acceptable(&[200, 404]);
\* a page that is not found or not public shows no samples.
PageResponses ==
    {res \in [status : {200, 404}, hidden : BOOLEAN, sample : SampleKinds] :
        (res.status = 404 \/ res.hidden) => res.sample = "Broken"}

\* The listings extract_problems can return: (name, href) rows, each row
\* the link of another problem.
Rows == [name : {"A", "1"}, href : {U64ToString(n) : n \in Nos}]
Listings ==
    {rows \in SeqsUpTo(Rows, MaxProblems) \ {<< >>} :
        \A a, b \in 1..Len(rows) : a # b => rows[a].href # rows[b].href}

Request(kind, arg, status) == [kind |-> kind, arg |-> arg, status |-> status]

\* The responses the page `url` can have, given what the run has seen of it.
Answers(url) ==
    {res \in PageResponses :
        /\ (\E n \in 1..Len(notFound) : notFound[n] = url) => res.status = 404
        /\ (\E n \in 1..Len(notPublic) : notPublic[n] = url) =>
               res.status = 200 /\ res.hidden
        /\ \A n \in 1..Len(outcome) :
               outcome[n].url = url =>
                   /\ res.status = 200
                   /\ ExtractSamples(res.sample) = Some(outcome[n].suite)
                   /\ (FromString(contestArg) = "No" => ~res.hidden)}

Problem(name, url, suite) == [name |-> name, url |-> url, suite |-> suite]

DownloadErr(e) ==
    /\ dresult' = e
    /\ dpc' = "done"

RECURSIVE SelectNames(_, _)
\* The elements of the sequence v that are in the set S, in order.
SelectNames(v, S) ==
    IF v = << >> THEN << >>
    ELSE IF Head(v) \in S THEN <<Head(v)>> \o SelectNames(Tail(v), S)
         ELSE SelectNames(Tail(v), S)

\* `self.login(false)?`
DLogin ==
    /\ dpc = "login"
    /\ \E r \in {"Ok", "Err"}, u \in {None, Some("s1")} :
          IF r = "Err"
          THEN /\ DownloadErr("Err(Login)")
               /\ UNCHANGED username
          ELSE /\ username' = u
               /\ dpc' = "match"
               /\ UNCHANGED dresult
    /\ UNCHANGED <<contestArg, problems, onlyScraped, openInBrowser, solved, dIdx, listing,
                   outcome, notFound, notPublic, warnings, solvedBatchNos, zips,
                   textFilePaths, extracted, saved, opened, reqs>>
    /\ UNCHANGED <<valid, credential, cookies, assure, lpc, first, result, installs, asked,
                   prompts, wrongs, printed, probes, logins>>
    /\ UNCHANGED <<zipVars, formatVars, submitVars>>

\* `match (contest, problems.as_ref())`
DMatch ==
    /\ dpc = "match"
    /\ IF FromString(contestArg) = "No"
       THEN IF problems = None
            THEN DownloadErr("Err(PleaseSpecifyProblems)")
            ELSE dpc' = "direct" /\ UNCHANGED dresult
       ELSE dpc' = "listing" /\ UNCHANGED dresult
    /\ UNCHANGED <<contestArg, problems, onlyScraped, openInBrowser, solved, dIdx, listing,
                   outcome, notFound, notPublic, warnings, solvedBatchNos, zips,
                   textFilePaths, extracted, saved, opened, reqs>>
    /\ UNCHANGED <<zipVars, loginVars, formatVars, submitVars>>

\* A direct mode that takes a not-found status for a failure.
NotFoundFails(status) == status = 404

\* acceptable(&[200, 404]): a 404 is not a failure of the request.
NotFoundIsFailure(status) == FALSE

\* A classification that looks at the marker before the status.
ClassifyMarkerFirst(status, hidden) ==
    IF hidden THEN "not public" ELSE IF status = 404 THEN "not found" ELSE "available"

\* `if status == StatusCode::NOT_FOUND { .. } else if !public { .. } else { .. }`
Classify(status, hidden) ==
    IF status = 404 THEN "not found" ELSE IF hidden THEN "not public" ELSE "available"

\* The request of direct mode, logged with the marker its page showed.
PageRequest(arg, status, hidden) ==
    [kind |-> "page", arg |-> arg, status |-> status, hidden |-> hidden]

\* One iteration of `for problem in problems` of direct mode.
DirectFetch ==
    /\ dpc = "direct"
    /\ dIdx <= Len(Unwrap(problems))
    /\ LET problem == Unwrap(problems)[dIdx]
       IN  \E sent \in BOOLEAN, res \in Answers(problem) :
              /\ reqs' = Append(reqs, IF sent THEN PageRequest(problem, res.status, res.hidden)
                                               ELSE PageRequest(problem, 0, FALSE))
              /\ IF ~sent \/ NotFoundIsFailure(res.status)
                 THEN /\ DownloadErr("Err(Transport)")
                      /\ UNCHANGED <<dIdx, outcome, notFound, notPublic>>
                 ELSE IF Classify(res.status, res.hidden) = "not found"
                 THEN /\ notFound' = Append(notFound, problem)
                      /\ dIdx' = dIdx + 1
                      /\ UNCHANGED <<dpc, dresult, outcome, notPublic>>
                 ELSE IF Classify(res.status, res.hidden) = "not public"
                 THEN /\ notPublic' = Append(notPublic, problem)
                      /\ dIdx' = dIdx + 1
                      /\ UNCHANGED <<dpc, dresult, outcome, notFound>>
                 ELSE IF ExtractSamples(res.sample) = None
                 THEN /\ DownloadErr("Err(Scrape)")
                      /\ UNCHANGED <<dIdx, outcome, notFound, notPublic>>
                 ELSE /\ outcome' = Append(outcome, Problem(problem, problem,
                                                            Unwrap(ExtractSamples(res.sample))))
                      /\ dIdx' = dIdx + 1
                      /\ UNCHANGED <<dpc, dresult, notFound, notPublic>>
    /\ UNCHANGED <<contestArg, problems, onlyScraped, openInBrowser, solved, listing,
                   warnings, solvedBatchNos, zips, textFilePaths, extracted, saved, opened>>
    /\ UNCHANGED <<zipVars, loginVars, formatVars, submitVars>>

\* The end of direct mode: the two warnings.
DirectWarn ==
    /\ dpc = "direct"
    /\ dIdx > Len(Unwrap(problems))
    /\ warnings' = (IF notFound # << >> THEN <<[head |-> "Not found", list |-> notFound]>>
                    ELSE << >>)
                   \o (IF notPublic # << >> THEN <<[head |-> "Not public", list |-> notPublic]>>
                       ELSE << >>)
    /\ dpc' = "filter"
    /\ UNCHANGED <<contestArg, problems, onlyScraped, openInBrowser, solved, dIdx, listing,
                   outcome, notFound, notPublic, solvedBatchNos, zips, textFilePaths,
                   extracted, saved, opened, reqs, dresult>>
    /\ UNCHANGED <<zipVars, loginVars, formatVars, submitVars>>

\* GET /contests/{contest} and extract_problems.
ListingFetch ==
    /\ dpc = "listing"
    /\ \E sent \in BOOLEAN, rows \in Listings \cup {<< >>} :
       /\ reqs' = Append(reqs, Request("listing", "", IF sent THEN 200 ELSE 0))
       /\ IF ~sent
          THEN /\ DownloadErr("Err(Transport)")
               /\ UNCHANGED <<listing, dIdx>>
          ELSE IF rows = << >>
          THEN /\ DownloadErr("Err(Scrape)")
               /\ UNCHANGED <<listing, dIdx>>
          ELSE /\ listing' = rows
               /\ dIdx' = 1
               /\ dpc' = "grouped"
               /\ UNCHANGED dresult
    /\ UNCHANGED <<contestArg, problems, onlyScraped, openInBrowser, solved, outcome,
                   notFound, notPublic, warnings, solvedBatchNos, zips, textFilePaths,
                   extracted, saved, opened>>
    /\ UNCHANGED <<zipVars, loginVars, formatVars, submitVars>>

\* A grouped mode that scrapes every row of the listing.
RequestedAll(name) == TRUE

\* `problems.is_none() || problems.as_ref().unwrap().contains(&name)`
Requested(name) ==
    problems = None \/ \E n \in 1..Len(Unwrap(problems)) : Unwrap(problems)[n] = name

\* One iteration of `for (name, href) in target_problems` of grouped mode;
\* after the last one the match is left.
GroupedFetch ==
    /\ dpc = "grouped"
    /\ LET name == listing[dIdx].name
           href == listing[dIdx].href
           next == IF dIdx = Len(listing) THEN "filter" ELSE "grouped"
       IN  IF Requested(name)
           THEN \E sent \in BOOLEAN, res \in Answers(href) :
                   /\ reqs' = Append(reqs, Request("page", href,
                                                   IF sent THEN res.status ELSE 0))
                   /\ IF ~sent \/ res.status # 200
                      THEN /\ DownloadErr("Err(Transport)")
                           /\ UNCHANGED <<dIdx, outcome>>
                      ELSE IF ExtractSamples(res.sample) = None
                      THEN /\ DownloadErr("Err(Scrape)")
                           /\ UNCHANGED <<dIdx, outcome>>
                      ELSE /\ outcome' = Append(outcome, Problem(name, href,
                                                       Unwrap(ExtractSamples(res.sample))))
                           /\ dIdx' = dIdx + 1
                           /\ dpc' = next
                           /\ UNCHANGED dresult
           ELSE /\ dIdx' = dIdx + 1
                /\ dpc' = next
                /\ UNCHANGED <<reqs, outcome, dresult>>
    /\ UNCHANGED <<contestArg, problems, onlyScraped, openInBrowser, solved, listing,
                   notFound, notPublic, warnings, solvedBatchNos, zips, textFilePaths,
                   extracted, saved, opened>>
    /\ UNCHANGED <<zipVars, loginVars, formatVars, submitVars>>

\* The names of outcome.problems, in order.
OutcomeNames == [n \in 1..Len(outcome) |-> outcome[n].name]

\* filter_solved once the list of solved problems is received: the elements
\* of nos that are the decimal form of a solved number.
FilterSolved(nos) == SelectNames(nos, {U64ToString(n) : n \in solved})

\* A selection that takes every solved problem, whatever its suite.
HasSuiteNamed(name) == \E n \in 1..Len(outcome) : outcome[n].name = name

\* `.any(|problem| match &problem.test_suite { TestSuite::Batch(_) =>
\* problem.name == *no, _ => false })`
HasBatchNamed(name) ==
    \E n \in 1..Len(outcome) : outcome[n].suite.kind = "Batch" /\ outcome[n].name = name

\* A filter_solved that asks also when nobody is logged in.
AsksSolvedAlways(u) == TRUE

\* `if let Some(username) = self.username.name()`: whether filter_solved
\* sends its request.
AsksSolved(u) == IsSome(UsernameName(u))

\* A download that ignores only_scraped.
SkipsNever(flag) == FALSE

\* `if *only_scraped { vec![] }`: whether the selection is skipped.
SkipsSelection(flag) == flag

\* `let solved_batch_nos = ..` and the test `solved_batch_nos.is_empty()`.
SelectSolvedBatch ==
    /\ dpc = "filter"
    /\ \E sent \in BOOLEAN :
          LET asks == ~SkipsSelection(onlyScraped) /\ AsksSolved(username)
              nos == IF asks
                     THEN SelectNames(FilterSolved(OutcomeNames),
                                      {name \in Names : HasBatchNamed(name)})
                     ELSE << >>
          IN  /\ reqs' = IF asks
                         THEN Append(reqs, Request("solved", "", IF sent THEN 200 ELSE 0))
                         ELSE reqs
              /\ IF asks /\ ~sent
                 THEN /\ DownloadErr("Err(Transport)")
                      /\ UNCHANGED <<solvedBatchNos, dIdx>>
                 ELSE /\ solvedBatchNos' = nos
                      /\ dpc' = IF nos = << >> THEN "save" ELSE "archives"
                      /\ dIdx' = 1
                      /\ UNCHANGED dresult
    /\ UNCHANGED <<contestArg, problems, onlyScraped, openInBrowser, solved, listing,
                   outcome, notFound, notPublic, warnings, zips, textFilePaths, extracted,
                   saved, opened>>
    /\ UNCHANGED <<zipVars, loginVars, formatVars, submitVars>>

\* What download_progress returns when it succeeds: one buffer per URL, in
\* the order of the URLs; the buffer is named by the number in its URL.
DownloadProgress(nos) == nos

\* download_progress(&urls, ..): every archive is fetched, or the call fails.
FetchArchives ==
    /\ dpc = "archives"
    /\ \E sent \in BOOLEAN :
       /\ reqs' = reqs \o [n \in 1..Len(solvedBatchNos) |->
                              Request("archive", solvedBatchNos[n], IF sent THEN 200 ELSE 0)]
       /\ IF ~sent
          THEN /\ DownloadErr("Err(Transport)")
               /\ UNCHANGED <<zips, dIdx>>
          ELSE /\ zips' = DownloadProgress(solvedBatchNos)
               /\ dIdx' = 1
               /\ dpc' = "extract"
               /\ UNCHANGED dresult
    /\ UNCHANGED <<contestArg, problems, onlyScraped, openInBrowser, solved, listing,
                   outcome, notFound, notPublic, warnings, solvedBatchNos, textFilePaths,
                   extracted, saved, opened>>
    /\ UNCHANGED <<zipVars, loginVars, formatVars, submitVars>>

\* A loop that goes on to save after the first archive.
AfterExtractFirst(i, n) == "save"

\* `.collect::<ServiceResult<Vec<_>>>()?`: where download goes on after the
\* i-th of n archives is extracted.
AfterExtract(i, n) == IF i = n THEN "save" ELSE "extract"

\* One element of `.zip_eq(&solved_batch_nos).map(..)`: extract_zip of the
\* archive into text_file_dir(no).
ExtractArchive ==
    /\ dpc = "extract"
    /\ LET no == solvedBatchNos[dIdx]
       IN  \E ok \in BOOLEAN :
              IF ~ok
              THEN /\ DownloadErr("Err(Extract)")
                   /\ UNCHANGED <<dIdx, textFilePaths, extracted>>
              ELSE /\ extracted' = Append(extracted, [zip |-> zips[dIdx], dir |-> no])
                   /\ textFilePaths' = Append(textFilePaths, [no |-> no, paths |-> zips[dIdx]])
                   /\ dpc' = AfterExtract(dIdx, Len(zips))
                   /\ dIdx' = IF dpc' = "save" THEN 1 ELSE dIdx + 1
                   /\ UNCHANGED dresult
    /\ UNCHANGED <<contestArg, problems, onlyScraped, openInBrowser, solved, listing,
                   outcome, notFound, notPublic, warnings, solvedBatchNos, zips, saved,
                   opened, reqs>>
    /\ UNCHANGED <<zipVars, loginVars, formatVars, submitVars>>

\* An inner loop that takes the first pair, whatever its no.
PathsForAny(name) ==
    IF textFilePaths = << >> THEN None ELSE Some(textFilePaths[1].paths)

\* The inner for loop with its break: the paths of the first pair whose no
\* is the name, if any.
PathsFor(name) ==
    LET hits == {n \in 1..Len(textFilePaths) : textFilePaths[n].no = name}
    IN  IF hits = {} THEN None
        ELSE Some(textFilePaths[CHOOSE n \in hits : \A m \in hits : n <= m].paths)

\* A promotion that leaves the value mem::replace has put in the slot.
PromotedPlaceholder(suite, paths) == Unsubmittable

\* `match mem::replace(test_suite, TestSuite::Unsubmittable)`
Promoted(suite, paths) ==
    IF suite.kind = "Batch" THEN WithoutCasesPaths(suite, paths) ELSE suite

\* One iteration of the last loop over outcome.problems: the promotion of
\* the suite, then test_suite.save.
SaveSuite ==
    /\ dpc = "save"
    /\ dIdx <= Len(outcome)
    /\ LET p == outcome[dIdx]
           suite == IF IsSome(PathsFor(p.name))
                    THEN Promoted(p.suite, Unwrap(PathsFor(p.name)))
                    ELSE p.suite
       IN  /\ outcome' = [outcome EXCEPT ![dIdx].suite = suite]
           /\ \E ok \in BOOLEAN :
                 IF ~ok
                 THEN /\ DownloadErr("Err(IO)")
                      /\ UNCHANGED <<dIdx, saved>>
                 ELSE /\ saved' = Append(saved, [name |-> p.name, suite |-> suite])
                      /\ dIdx' = dIdx + 1
                      /\ UNCHANGED <<dpc, dresult>>
    /\ UNCHANGED <<contestArg, problems, onlyScraped, openInBrowser, solved, listing,
                   notFound, notPublic, warnings, solvedBatchNos, zips, textFilePaths,
                   extracted, opened, reqs>>
    /\ UNCHANGED <<zipVars, loginVars, formatVars, submitVars>>

\* `if *open_in_browser { .. }` and `Ok(outcome)`.
Finish ==
    /\ dpc = "save"
    /\ dIdx > Len(outcome)
    /\ \E ok \in BOOLEAN :
          IF openInBrowser /\ outcome # << >> /\ ~ok
          THEN /\ DownloadErr("Err(IO)")
               /\ opened' = << >>
          ELSE /\ opened' = IF openInBrowser
                            THEN [n \in 1..Len(outcome) |-> outcome[n].url]
                            ELSE << >>
               /\ dresult' = "Ok"
               /\ dpc' = "done"
    /\ UNCHANGED <<contestArg, problems, onlyScraped, openInBrowser, solved, dIdx, listing,
                   outcome, notFound, notPublic, warnings, solvedBatchNos, zips,
                   textFilePaths, extracted, saved, reqs>>
    /\ UNCHANGED <<zipVars, loginVars, formatVars, submitVars>>

\* Yukicoder::try_new, then download is entered with its DownloadProps.
InitDownload ==
    /\ contestArg \in ContestArgs
    /\ problems \in {None} \cup {Some(ps) : ps \in SeqsUpTo(Names, MaxProblems)}
    /\ onlyScraped \in BOOLEAN
    /\ openInBrowser \in BOOLEAN
    /\ solved \in SUBSET Nos
    /\ dpc = "login"
    /\ dIdx = 1
    /\ listing = << >>
    /\ outcome = << >>
    /\ notFound = << >>
    /\ notPublic = << >>
    /\ warnings = << >>
    /\ solvedBatchNos = << >>
    /\ zips = << >>
    /\ textFilePaths = << >>
    /\ extracted = << >>
    /\ saved = << >>
    /\ opened = << >>
    /\ reqs = << >>
    /\ dresult = "running"
    /\ LoginIdle
    /\ ZipIdle
    /\ FormatIdle
    /\ SubmitIdle

NextDownload ==
    \/ DLogin
    \/ DMatch
    \/ DirectFetch
    \/ DirectWarn
    \/ ListingFetch
    \/ GroupedFetch
    \/ SelectSolvedBatch
    \/ FetchArchives
    \/ ExtractArchive
    \/ SaveSuite
    \/ Finish

SpecDownload == InitDownload /\ [][NextDownload]_vars

(***************************************************************************)
(* Yukicoder::submit.                                                      *)
(*                                                                         *)
(* A request is logged with the status 0 when it got no accepted response  *)
(* (it could not be sent, it timed out, or its status is not in the        *)
(* accepted set).  A URL /problems/no/{x} is named by x.                   *)
(***************************************************************************)
Exts == {"rs", "c", "zz"}

\* A table that knows one language for each extension.
LangIdsFirst(ext) ==
    CASE ext = "rs" -> Some(<<"rust">>)
      [] ext = "c" -> Some(<<"c11">>)
      [] OTHER -> None

\* LANG_IDS.get(ext), for the extensions of the model.
LangIds(ext) ==
    CASE ext = "rs" -> Some(<<"rust">>)
      [] ext = "c" -> Some(<<"c11", "c">>)
      [] OTHER -> None

\* NO.captures(&url): the number of a URL /problems/no/(\d+)/submit.
NoOf(url) == IF url \in {U64ToString(n) : n \in Nos} THEN Some(url) ELSE None

\* The Location headers of the response to the POST: none, one of a
\* submission, another one, one that is not a string.
Locations == {"none", "/submissions/1", "/problems/no/1", "invalid"}

\* A test that takes every Location header for the one of a submission.
IsSubmissionLocationAny(location) == TRUE

\* location.contains("/submissions/")
IsSubmissionLocation(location) == location = "/submissions/1"

\* An error that does not end submit.
SubmitErrIgnored(e) == UNCHANGED <<sresult, spc>>

\* `?` and `return Err(..)` in submit.
SubmitErr(e) ==
    /\ sresult' = e
    /\ spc' = "done"

\* `let lang_id = match lang_id { .. }`
SResolveLang ==
    /\ spc = "lang"
    /\ IF IsSome(sprops.lang_id)
       THEN slang' = sprops.lang_id /\ spc' = "read" /\ UNCHANGED sresult
       ELSE IF IsSome(LangIds(sprops.ext)) /\ Len(Unwrap(LangIds(sprops.ext))) = 1
       THEN slang' = Some(Unwrap(LangIds(sprops.ext))[1]) /\ spc' = "read" /\ UNCHANGED sresult
       ELSE SubmitErr("Err(RecognizeByExtension)") /\ UNCHANGED slang
    /\ UNCHANGED <<sprops, slocation, surl, sreqs>>
    /\ UNCHANGED <<zipVars, loginVars, downloadVars, formatVars>>

\* `let code = crate::fs::read_to_string(src_path)?`
SReadSource ==
    /\ spc = "read"
    /\ \E ok \in BOOLEAN :
          IF ok THEN spc' = "login" /\ UNCHANGED sresult ELSE SubmitErr("Err(IO)")
    /\ UNCHANGED <<sprops, slang, slocation, surl, sreqs>>
    /\ UNCHANGED <<zipVars, loginVars, downloadVars, formatVars>>

\* `self.login(true)?`: a mandatory login that returns Ok has an identity.
SLogin ==
    /\ spc = "login"
    /\ \E ok \in BOOLEAN :
          IF ok
          THEN username' = Some("s1") /\ spc' = "url" /\ UNCHANGED sresult
          ELSE SubmitErr("Err(Login)") /\ UNCHANGED username
    /\ UNCHANGED <<sprops, slang, slocation, surl, sreqs>>
    /\ UNCHANGED <<valid, credential, cookies, assure, lpc, first, result, installs, asked,
                   prompts, wrongs, printed, probes, logins>>
    /\ UNCHANGED <<zipVars, downloadVars, formatVars>>

\* The first href of the listing whose name is the problem, ignoring case.
FindProblem(rows, problem) ==
    LET hits == {n \in 1..Len(rows) : EqIgnoreAsciiCase(<<rows[n].name>>, <<problem>>)}
    IN  IF hits = {} THEN None
        ELSE Some(rows[CHOOSE n \in hits : \A m \in hits : n <= m].href)

\* `let mut url = match contest { .. }`
SResolveUrl ==
    /\ spc = "url"
    /\ IF FromString(sprops.contest) = "No"
       THEN /\ surl' = Some(sprops.problem)
            /\ spc' = "solved"
            /\ UNCHANGED <<sreqs, sresult>>
       ELSE \E sent \in BOOLEAN, rows \in Listings \cup {<< >>} :
               /\ sreqs' = Append(sreqs, Request("listing", "", IF sent THEN 200 ELSE 0))
               /\ IF ~sent THEN SubmitErr("Err(Transport)") /\ UNCHANGED surl
                  ELSE IF rows = << >> THEN SubmitErr("Err(Scrape)") /\ UNCHANGED surl
                  ELSE IF FindProblem(rows, sprops.problem) = None
                  THEN SubmitErr("Err(NoSuchProblem)") /\ UNCHANGED surl
                  ELSE /\ surl' = FindProblem(rows, sprops.problem)
                       /\ spc' = "solved"
                       /\ UNCHANGED sresult
    /\ UNCHANGED <<sprops, slang, slocation>>
    /\ UNCHANGED <<zipVars, loginVars, downloadVars, formatVars>>

\* `if let Some(no) = no { .. }` with filter_solved(&[no]).
SCheckSolved ==
    /\ spc = "solved"
    /\ IF IsSome(NoOf(Unwrap(surl))) /\ AsksSolved(username)
       THEN \E sent \in BOOLEAN :
               /\ sreqs' = Append(sreqs, Request("solved", Unwrap(UsernameName(username)),
                                                 IF sent THEN 200 ELSE 0))
               /\ IF ~sent THEN SubmitErr("Err(Transport)")
                  ELSE IF ~(FilterSolved(<<Unwrap(NoOf(Unwrap(surl)))>>) = << >>
                            \/ sprops.skip_checking_if_accepted)
                  THEN SubmitErr("Err(AlreadyAccepted)")
                  ELSE spc' = "page" /\ UNCHANGED sresult
       ELSE spc' = "page" /\ UNCHANGED <<sreqs, sresult>>
    /\ UNCHANGED <<sprops, slang, slocation, surl>>
    /\ UNCHANGED <<zipVars, loginVars, downloadVars, formatVars>>

\* `self.get(&url).recv_html()?` and the two extractions from the page.
SGetPage ==
    /\ spc = "page"
    /\ \E sent \in BOOLEAN, scraped \in BOOLEAN :
          /\ sreqs' = Append(sreqs, Request("submit page", Unwrap(surl), IF sent THEN 200 ELSE 0))
          /\ IF ~sent THEN SubmitErr("Err(Transport)")
             ELSE IF ~scraped THEN SubmitErr("Err(Scrape)")
             ELSE spc' = "post" /\ UNCHANGED sresult
    /\ UNCHANGED <<sprops, slang, slocation, surl>>
    /\ UNCHANGED <<zipVars, loginVars, downloadVars, formatVars>>

\* `self.post(&url).send_multipart(form)?` and what follows it.
SPost ==
    /\ spc = "post"
    /\ \E sent \in BOOLEAN, location \in Locations, ok \in BOOLEAN :
          /\ sreqs' = Append(sreqs, Request("post", Unwrap(surl), IF sent THEN 302 ELSE 0))
          /\ slocation' = IF sent THEN Some(location) ELSE slocation
          /\ IF ~sent THEN SubmitErr("Err(Transport)")
             ELSE IF location = "invalid" THEN SubmitErr("Err(ReadHeader)")
             ELSE IF location # "none" /\ IsSubmissionLocation(location)
             THEN IF ok THEN sresult' = "Ok" /\ spc' = "done" ELSE SubmitErr("Err(IO)")
             ELSE SubmitErr("Err(SubmissionRejected)")
    /\ UNCHANGED <<sprops, slang, surl>>
    /\ UNCHANGED <<zipVars, loginVars, downloadVars, formatVars>>

\* submit is entered with its SubmitProps, the problem already in upper case.
InitSubmit ==
    /\ sprops \in [contest : ContestArgs, problem : Names,
                    lang_id : {None, Some("rust")}, ext : Exts,
                    open_in_browser : BOOLEAN, skip_checking_if_accepted : BOOLEAN]
    /\ spc = "lang"
    /\ slang = None
    /\ slocation = None
    /\ surl = None
    /\ sreqs = << >>
    /\ sresult = "running"
    /\ solved \in SUBSET Nos
    /\ ZipIdle
    /\ LoginIdle
    /\ DownloadQuiet
    /\ FormatIdle

NextSubmit ==
    \/ SResolveLang
    \/ SReadSource
    \/ SLogin
    \/ SResolveUrl
    \/ SCheckSolved
    \/ SGetPage
    \/ SPost

SpecSubmit == InitSubmit /\ [][NextSubmit]_vars

(***************************************************************************)
(* A command of the program: login, download or submit.                    *)
(***************************************************************************)
InitCommand == InitLogin \/ InitDownload \/ InitSubmit

NextCommand ==
    \/ dpc = "idle" /\ spc = "idle" /\ NextLogin
    \/ NextDownload
    \/ NextSubmit

SpecCommand == InitCommand /\ [][NextCommand]_vars

(***************************************************************************)
(* PathFormat::format.                                                     *)
(*                                                                         *)
(* A template, a target and a formatted string are sequences of            *)
(* characters; the keyword map is a set of (name, value) pairs with one    *)
(* pair per name.  A result is Ok with the formatted string or one of the  *)
(* three variants of PathFormatError with the string it carries.           *)
(***************************************************************************)
MaxTemplate == 5

Chars == {"$", "{", "}", " ", "/", "\\", "c", "C"}

Targets == {<<"a", "b">>}

KeywordMaps ==
    { {[name |-> << >>, value |-> <<"A">>], [name |-> <<"c">>, value |-> <<"B", "B">>]} }

FormatOk(s) == [kind |-> "Ok", s |-> s]
FormatErr(kind, s) == [kind |-> kind, s |-> s]

\* keywords.get(s)
KeywordsGet(kw, s) ==
    IF \E e \in kw : e.name = s THEN Some((CHOOSE e \in kw : e.name = s).value) ELSE None

\* Camelize::camelize for the targets of the model: the first letter in
\* upper case.
Camelize(t) ==
    IF t = << >> THEN t
    ELSE <<IF Head(t) = "a" THEN "A" ELSE Head(t)>> \o Tail(t)

RECURSIVE SkipSpaces(_)
SkipSpaces(s) == IF s # << >> /\ Head(s) = " " THEN SkipSpaces(Tail(s)) ELSE s

Reverse(s) == [n \in 1..Len(s) |-> s[Len(s) + 1 - n]]

\* A trim_lr that leaves the white space in place.
TrimLrNothing(s) == s

\* trim_lr: the capture of ^\s*(\S*)\s*$ when the pattern matches, s itself
\* when it does not (s has white space between two other characters).
TrimLr(s) ==
    LET core == Reverse(SkipSpaces(Reverse(SkipSpaces(s))))
    IN  IF \E n \in 1..Len(core) : core[n] = " " THEN s ELSE core

\* Token::format: the formatted string with the token appended, or an error.
TokenFormat(token, tgt, kw, f) ==
    IF token.kind = "Text" THEN FormatOk(f \o token.s)
    ELSE IF token.kind = "Var"
    THEN IF IsSome(KeywordsGet(kw, token.s))
         THEN FormatOk(f \o Unwrap(KeywordsGet(kw, token.s)))
         ELSE FormatErr("NoSuchKeyword", token.s)
    ELSE LET s == TrimLr(token.s)
         IN  IF s = << >> THEN FormatOk(f \o tgt)
             ELSE IF s \in {<<"c">>, <<"C">>} THEN FormatOk(f \o Camelize(tgt))
             ELSE FormatErr("NoSuchSpecifier", s)

\* The token that a state becomes when it is closed.
TokenOf(state) ==
    [kind |-> CASE state.kind = "Plain" -> "Text"
                [] state.kind = "Dollar" -> "Var"
                [] state.kind = "Brace" -> "Target",
     s |-> state.s]

\* State::close
StateClose(self, next, tokens) ==
    [state |-> next,
     tokens |-> IF self.kind = "Plain" /\ self.s = << >> THEN tokens
                ELSE Append(tokens, TokenOf(self))]

\* State::push
StatePush(self, c, tokens) ==
    [state |-> [self EXCEPT !.s = Append(@, c)], tokens |-> tokens]

\* State::plain, State::var and State::brace
StatePlain(self, chars, tokens) == StateClose(self, [kind |-> "Plain", s |-> chars], tokens)
StateVar(self, tokens) == StateClose(self, [kind |-> "Dollar", s |-> << >>], tokens)
StateBrace(self, tokens) == StateClose(self, [kind |-> "Brace", s |-> << >>], tokens)

\* An end that closes a group left open.
StateEndLenient(self, tokens) == Some(Append(tokens, TokenOf(self)))

\* State::end: the tokens, or None for the syntax error.
StateEnd(self, tokens) ==
    IF self.kind = "Brace" THEN None ELSE Some(Append(tokens, TokenOf(self)))

\* A name that only a space ends.
EndsVarSpaceOnly(c) == c = " "

\* The characters that end a variable name and start plain text with
\* themselves.
EndsVar(c) == c \in {" ", "/", "\\"}

\* One arm of the match on (c, state): None for `return Err(syntax_error())`.
Step(c, state, tokens) ==
    CASE state.kind = "Plain" ->
            IF c = "$" THEN Some(StateVar(state, tokens))
            ELSE IF c = "{" THEN Some(StateBrace(state, tokens))
            ELSE IF c = "}" THEN None
            ELSE Some(StatePush(state, c, tokens))
      [] state.kind = "Dollar" ->
            IF c = "$" THEN Some(StateVar(state, tokens))
            ELSE IF c = "{" THEN Some(StateBrace(state, tokens))
            ELSE IF c = "}" THEN None
            ELSE IF EndsVar(c) THEN Some(StatePlain(state, <<c>>, tokens))
            ELSE Some(StatePush(state, c, tokens))
      [] state.kind = "Brace" ->
            IF c = "{" THEN None
            ELSE IF c = "}" THEN Some(StatePlain(state, << >>, tokens))
            ELSE Some(StatePush(state, c, tokens))

RECURSIVE Tokenize(_, _, _)
\* The loop over the characters and state.end: the tokens, or None.
Tokenize(chars, state, tokens) ==
    IF chars = << >> THEN StateEnd(state, tokens)
    ELSE LET r == Step(Head(chars), state, tokens)
         IN  IF r = None THEN None
             ELSE Tokenize(Tail(chars), Unwrap(r).state, Unwrap(r).tokens)

RECURSIVE FormatTokens(_, _, _, _)
\* The loop over the tokens with `?`.
FormatTokens(tokens, tgt, kw, f) ==
    IF tokens = << >> THEN FormatOk(f)
    ELSE LET r == TokenFormat(Head(tokens), tgt, kw, f)
         IN  IF r.kind # "Ok" THEN r
             ELSE FormatTokens(Tail(tokens), tgt, kw, r.s)

\* PathFormat::format
Format(tpl, tgt, kw) ==
    LET tokens == Tokenize(tpl, [kind |-> "Plain", s |-> << >>], << >>)
    IN  IF tokens = None THEN FormatErr("Syntax", tpl)
        ELSE FormatTokens(Unwrap(tokens), tgt, kw, << >>)

\* format is called.
CallFormat ==
    /\ fresult = None
    /\ fresult' = Some(Format(template, target, keywords))
    /\ UNCHANGED <<template, target, keywords>>
    /\ UNCHANGED <<zipVars, loginVars, downloadVars, submitVars>>

InitFormat ==
    /\ \E n \in 0..MaxTemplate : template \in [1..n -> Chars]
    /\ target \in Targets
    /\ keywords \in KeywordMaps
    /\ fresult = None
    /\ ZipIdle
    /\ LoginIdle
    /\ DownloadIdle
    /\ SubmitIdle

NextFormat == CallFormat

SpecFormat == InitFormat /\ [][NextFormat]_vars

(***************************************************************************)
(* Properties of extract_zip.                                              *)
(***************************************************************************)
\* The entries that took the input branch, and the output branch, with key k.
\* An entry that both patterns match takes the input branch.
InputEntries(k) == {i \in Tasks : Side(i) = "in" /\ Name(i) = k}
OutputEntries(k) == {i \in Tasks : Side(i) = "out" /\ Name(i) = k}

Returned == {ret[n] : n \in 1..Len(ret)}

\* C1: once extract_zip has returned, a key is in the returned list if and
\* only if some entry was merged as the input side of that key and some entry
\* as its output side; a key with one side only and an entry that no pattern
\* matches add nothing to the list.
C1_PairedIffBothSides ==
    zpc = "done" =>
        \A k \in Keys : (k \in Returned) <=> (InputEntries(k) # {} /\ OutputEntries(k) # {})

\* A run that returned one pair and dropped a key that had one side only.
C1_Witness ==
    /\ zpc = "done"
    /\ Returned # {}
    /\ \E k \in Keys : (InputEntries(k) # {}) # (OutputEntries(k) # {})

\* The tasks between their remove and their insert: such a task holds the
\* value of its key in `taken`.
Merging == {i \in Tasks : tpc[i] = "removed"}

\* The keys whose side `side` a finished task has merged.
MergedKeys(side) == {Name(i) : i \in {j \in Tasks : tpc[j] = "done" /\ Side(j) = side}}

\* The two sides stored for key k, looking through a merge in progress.
Stored(k) ==
    IF \E i \in Merging : Name(i) = k
    THEN taken[CHOOSE i \in Merging : Name(i) = k]
    ELSE pairs[k]

\* C4: in every interleaving of the entry tasks and at every moment of the
\* parallel phase, the map holds an input side for a key exactly when some
\* input task of that key has finished its merge, and an output side exactly
\* when some output task of that key has: no merge erases the side another
\* task stored, and at most one task is inside a merge.
C4_NoLostUpdate ==
    zpc = "par" =>
        LET ins == MergedKeys("in")
            outs == MergedKeys("out")
        IN  /\ Cardinality({i \in Tasks : tpc[i] \in {"locked", "removed"}}) <= 1
            /\ \A k \in Keys :
                  LET s == Stored(k)
                  IN  /\ (IsSome(s) /\ IsSome(Unwrap(s).input)) <=> k \in ins
                      /\ (IsSome(s) /\ IsSome(Unwrap(s).output)) <=> k \in outs

\* A task merges its side into a key whose other side is already stored while
\* a third task waits for the lock.
C4_Witness ==
    /\ zpc = "par"
    /\ \E i, j, w \in Tasks :
          /\ tpc[i] = "done"
          /\ tpc[j] = "removed"
          /\ Side(i) # "none"
          /\ Name(i) = Name(j)
          /\ Side(i) # Side(j)
          /\ IsSome(taken[j])
          /\ tpc[w] = "matched"

\* Whether the returned list has key a somewhere before key b.
Position(v, k) == CHOOSE n \in 1..Len(v) : v[n].name = k

\* C2: with the sortings [Dictionary, Number] the returned list is ordered by
\* the value of the keys that parse as usize, keys of equal value are in
\* byte-wise lexicographic order, every key that does not parse comes after
\* every key that parses, and the keys that do not parse are in lexicographic
\* order among themselves.
C2_DictionaryThenNumber ==
    (zpc = "done" /\ sortings = <<"Dictionary", "Number">>) =>
        \A a, b \in 1..Len(ret) :
            a < b =>
                LET pa == ParseUsize(ret[a])
                    pb == ParseUsize(ret[b])
                IN  /\ (IsSome(pa) /\ IsSome(pb)) =>
                           \/ NumCmp(Unwrap(pa), Unwrap(pb)) = "Less"
                           \/ /\ Unwrap(pa) = Unwrap(pb)
                              /\ StrCmp(ret[a], ret[b]) = "Less"
                    /\ ~(~IsSome(pa) /\ IsSome(pb))
                    /\ (~IsSome(pa) /\ ~IsSome(pb)) => StrCmp(ret[a], ret[b]) = "Less"

\* Every key of the model was paired: two keys of equal value, a pair that the
\* two policies order differently, and two keys that do not parse.
C2_Witness ==
    /\ zpc = "done"
    /\ sortings = <<"Dictionary", "Number">>
    /\ Returned = Keys

\* C3: for a non-empty list of sortings the returned list is sorted by the
\* last sorting, two keys that the last sorting holds equal are in the order
\* they had after the sortings before it, and [Number, Dictionary] gives the
\* lexicographic order of the keys.
C3_LastPolicyDominates ==
    (zpc = "done" /\ Len(sortings) >= 1) =>
        /\ \A a, b \in 1..Len(ret) :
              a < b =>
                 /\ SortingCmp(sortings[Len(sortings)], ret[a], ret[b]) # "Greater"
                 /\ SortingCmp(sortings[Len(sortings)], ret[a], ret[b]) = "Equal"
                       => Position(prev, ret[a]) < Position(prev, ret[b])
        /\ sortings = <<"Number", "Dictionary">> =>
              \A a, b \in 1..Len(ret) : a < b => StrCmp(ret[a], ret[b]) = "Less"

\* Number alone: two keys that it holds equal came out of the map, and stayed,
\* in the order opposite to the lexicographic one.
C3_Witness ==
    /\ zpc = "done"
    /\ sortings = <<"Number">>
    /\ \E a, b \in 1..Len(ret) :
          /\ a < b
          /\ NumberCmp(ret[a], ret[b]) = "Equal"
          /\ StrCmp(ret[a], ret[b]) = "Greater"

(***************************************************************************)
(* Properties of login.                                                    *)
(***************************************************************************)
StoredInstalls == {n \in 1..Len(installs) : installs[n].from = "stored"}

\* The current call installed no cookie.
NoInstallInCall == \A n \in 1..Len(installs) : installs[n].call # logins

\* The first probe of the current call was of the stored credential, and got g.
StoredProbeGot(g) == probes # << >> /\ probes[1] = [of |-> "stored", got |-> g]

\* No request of the current call failed in transport.
NoTransportError == \A n \in 1..Len(probes) : probes[n].got # "error"

\* C5: the stored credential is used once: login leaves the stored credential
\* empty before the probe is sent, and over all calls of login of one run the
\* stored credential is installed into the session at most once, whatever
\* the probe with it returned.
C5_StoredCredentialSingleUse ==
    /\ Cardinality(StoredInstalls) <= 1
    /\ lpc # "idle" => credential = None

\* A second call of login has probed after a first call installed the stored
\* credential.
C5_Witness ==
    /\ logins = 2
    /\ StoredInstalls # {}
    /\ installs[1].call = 1
    /\ probes # << >>

C7_InvalidStoredCredentialFailsUnderAssure ==
    (assure /\ StoredProbeGot("none")) =>
        /\ lpc = "done"
        /\ result = "Err(LoginOnTest)"
        /\ Len(probes) = 1
        /\ asked = << >>
        /\ prompts = 0
        /\ printed = << >>

C7_Witness ==
    /\ assure
    /\ StoredProbeGot("none")
    /\ result = "Err(LoginOnTest)"

FailedPrompts == {n \in 1..Len(probes) : probes[n] = [of |-> "prompt", got |-> "none"]}

\* Whether the loop of this call of login was entered.
LoopEntered == \E n \in 1..Len(probes) : probes[n] = [of |-> "session", got |-> "none"]

\* The last probe of this call, if any.
LastProbe == IF probes = << >> THEN None ELSE Some(probes[Len(probes)])

C12_JarHoldsLastInstalledOnly ==
    installs # << >> => cookies = {installs[Len(installs)].token}

\* Two different credentials were installed into a jar that held a cookie.
C12_Witness ==
    /\ Len(installs) >= 2
    /\ installs[Len(installs)].token # installs[Len(installs) - 1].token
    /\ cookies = {installs[Len(installs)].token}

\* The entries whose name both patterns match.
BothMatch == {i \in Tasks : IsSome(archive[i].inCap) /\ IsSome(archive[i].outCap)}

\* C20: an entry whose name matches both patterns is never the output side
\* of any key, in the map, in a value a task holds or in the cases; where it
\* is an input side it is the input side of the key its input capture gives;
\* and once its task has finished the key of its input capture has an input
\* side.
C20_BothMatchingIsInputOnly ==
    LET both == BothMatch
    IN  both # {} =>
        /\ \A q \in Keys :
              IsSome(pairs[q]) =>
                  LET v == Unwrap(pairs[q])
                  IN  /\ (IsSome(v.output) => Unwrap(v.output) \notin both)
                      /\ (IsSome(v.input) /\ Unwrap(v.input) \in both =>
                             archive[Unwrap(v.input)].inCap = Some(q))
        /\ \A j \in Tasks :
              IsSome(taken[j]) /\ IsSome(Unwrap(taken[j]).output) =>
                  Unwrap(Unwrap(taken[j]).output) \notin both
        /\ \A n \in 1..Len(cases) :
              /\ cases[n].output \notin both
              /\ (cases[n].input \in both =>
                     archive[cases[n].input].inCap = Some(cases[n].name))
        /\ (zpc = "par" =>
              \A i \in both :
                  tpc[i] = "done" =>
                      LET s == Stored(Unwrap(archive[i].inCap))
                      IN  IsSome(s) /\ IsSome(Unwrap(s).input))

\* extract_zip returned the key of the input capture of an entry whose two
\* captures differ, with that entry as its input, and not the key of its
\* output capture.
C20_Witness ==
    /\ zpc = "done"
    /\ \E i \in BothMatch :
          /\ archive[i].inCap # archive[i].outCap
          /\ \E n \in 1..Len(cases) :
                /\ cases[n].input = i
                /\ cases[n].name = Unwrap(archive[i].inCap)
          /\ Unwrap(archive[i].outCap) \notin Returned

(***************************************************************************)
(* Properties of download.                                                 *)
(***************************************************************************)
\* Whether the problem p of the outcome is one the current identity solved:
\* somebody is logged in and the number of the problem page is in the list
\* of solved numbers.
SolvedByIdentity(p) ==
    IsSome(UsernameName(username)) /\ \E n \in solved : U64ToString(n) = p.url

\* C13: after a successful download, in direct and in grouped mode, every
\* problem of the outcome that was scraped as a batch suite ends with file
\* references as its cases if the current identity solved it and
\* only_scraped is off, and with its inline cases if it is unsolved or
\* only_scraped is on.
C13_SolvedBatchGetsFileCases ==
    dresult = "Ok" =>
        \A n \in 1..Len(outcome) :
            outcome[n].suite.kind = "Batch" =>
                IF SolvedByIdentity(outcome[n]) /\ ~onlyScraped
                THEN outcome[n].suite.cases # Inline
                ELSE outcome[n].suite.cases = Inline

\* The requests of one kind sent so far.
Sent(kind) == {n \in 1..Len(reqs) : reqs[n].kind = kind}

\* The suites extract_samples can return.
ScrapedSuites == {Unwrap(ExtractSamples(k)) : k \in {q \in SampleKinds : IsSome(ExtractSamples(q))}}

\* Every suite saved so far is the suite as it was scraped, and nothing of
\* the archive stage has happened.
NoAugmentation ==
    /\ Sent("archive") = {}
    /\ solvedBatchNos = << >>
    /\ zips = << >>
    /\ extracted = << >>
    /\ textFilePaths = << >>
    /\ \A n \in 1..Len(outcome) : outcome[n].suite \in ScrapedSuites
    /\ \A n \in 1..Len(saved) :
          saved[n] = [name |-> outcome[n].name, suite |-> outcome[n].suite]

\* C14: with only_scraped set, download sends no solved-status request and
\* no archive request, extracts no archive, and every suite it saves is the
\* suite as it was scraped; a download that returns Ok has saved the suite
\* of every problem of the outcome.
C14_OnlyScrapedSkipsArchives ==
    onlyScraped =>
        /\ Sent("solved") = {}
        /\ NoAugmentation
        /\ (dresult = "Ok" => Len(saved) = Len(outcome))

\* A logged-in user downloads with only_scraped, in direct mode, a batch
\* problem they solved.
C14_Witness ==
    /\ onlyScraped
    /\ dresult = "Ok"
    /\ FromString(contestArg) = "No"
    /\ \E n \in 1..Len(saved) :
          /\ SolvedByIdentity(outcome[n])
          /\ saved[n].suite.kind = "Batch"

\* C15 as stated: no problem whose scraped suite is interactive or
\* special-judge has its name among the problems whose archive is fetched
\* and extracted.
C15_Original ==
    \A i \in 1..Len(solvedBatchNos), n \in 1..Len(outcome) :
        outcome[n].name = solvedBatchNos[i] =>
            outcome[n].suite.kind = "Batch" /\ outcome[n].suite.matching # "Any"

\* C15, amended: every name whose archive is fetched and extracted is the
\* name of a problem of the outcome that holds a batch suite and is equal
\* to the decimal form of a solved number; a special-judge problem is
\* scraped as a batch suite (matching Any) and is selected like a regular
\* one: once names are selected, every batch problem of the outcome whose
\* name is a solved number is among them; and a suite that is not a batch
\* suite is never changed.
C15_OnlyBatchSuitesSelected ==
    /\ \A i \in 1..Len(solvedBatchNos) :
          /\ \E n \in 1..Len(outcome) :
                outcome[n].name = solvedBatchNos[i] /\ outcome[n].suite.kind = "Batch"
          /\ \E q \in solved : U64ToString(q) = solvedBatchNos[i]
    /\ (solvedBatchNos # << >> =>
          \A n \in 1..Len(outcome) :
              (outcome[n].suite.kind = "Batch"
                  /\ \E q \in solved : U64ToString(q) = outcome[n].name) =>
                  \E i \in 1..Len(solvedBatchNos) : solvedBatchNos[i] = outcome[n].name)
    /\ \A n \in 1..Len(outcome) :
          outcome[n].suite.kind # "Batch" => outcome[n].suite = InteractiveSuite

\* A solved special-judge problem and a solved interactive problem are
\* downloaded: the archive of the first is extracted and its suite saved
\* with file references, the second is saved as scraped.
C15_Witness ==
    /\ dresult = "Ok"
    /\ Len(saved) = 2
    /\ saved[1].suite.matching = "Any"
    /\ saved[1].suite.cases # Inline
    /\ saved[2].suite = InteractiveSuite
    /\ SolvedByIdentity(outcome[2])
    /\ Len(extracted) = 1

\* C16: while nobody is logged in, download sends no solved-status request
\* and nothing of the archive stage happens: every suite is saved as
\* scraped.
C16_UnauthenticatedFetchesNoArchive ==
    ~IsSome(UsernameName(username)) =>
        /\ Sent("solved") = {}
        /\ NoAugmentation

\* The user declined to log in; the download, without only_scraped and in
\* direct mode, of a batch problem on the list of solved numbers returns Ok.
C16_Witness ==
    /\ username = None
    /\ ~onlyScraped
    /\ dresult = "Ok"
    /\ FromString(contestArg) = "No"
    /\ \E n \in 1..Len(saved) :
          /\ saved[n].suite.kind = "Batch"
          /\ \E q \in solved : U64ToString(q) = saved[n].name

\* The identifiers of direct mode answered with a not-found status so far.
NotFoundAnswers ==
    [n \in 1..Cardinality({m \in Sent("page") : reqs[m].status = 404}) |->
        reqs[CHOOSE m \in Sent("page") :
                /\ reqs[m].status = 404
                /\ Cardinality({q \in Sent("page") : q < m /\ reqs[q].status = 404}) = n - 1].arg]

\* C17: in direct mode a not-found status is data: the identifiers answered
\* with it are exactly the not-found list, in order, and the loop goes on
\* with the next identifier; such an identifier is not in the outcome and no
\* suite is saved for it; at the end of the loop the list is written as one
\* "Not found" warning; and a download that returns Ok has put every
\* requested identifier in the not-found list, the not-public list or the
\* outcome.
C17_NotFoundIsData ==
    FromString(contestArg) = "No" =>
        /\ notFound = NotFoundAnswers
        /\ (dpc = "direct" => Len(notFound) + Len(notPublic) + Len(outcome) = dIdx - 1)
        /\ \A n \in 1..Len(notFound) :
              /\ \A m \in 1..Len(outcome) : outcome[m].name # notFound[n]
              /\ \A m \in 1..Len(saved) : saved[m].name # notFound[n]
        /\ (dpc \in {"filter", "archives", "extract", "save"} \/ dresult = "Ok" =>
              /\ (notFound # << >> =>
                      \E n \in 1..Len(warnings) :
                          warnings[n] = [head |-> "Not found", list |-> notFound])
              /\ Len(notFound) + Len(notPublic) + Len(outcome) = Len(Unwrap(problems)))

\* The first identifier was not found, the second was scraped and saved,
\* and download returned Ok.
C17_Witness ==
    /\ FromString(contestArg) = "No"
    /\ dresult = "Ok"
    /\ Len(Unwrap(problems)) = 2
    /\ notFound = <<Unwrap(problems)[1]>>
    /\ Len(saved) = 1
    /\ saved[1].name = Unwrap(problems)[2]

\* C18: download of the contest "no", in any case of the letters, without
\* a list of problems never returns Ok: once login has returned Ok it fails
\* with PleaseSpecifyProblems; it sends no request for a page, scrapes
\* nothing and saves no suite.
C18_DirectModeNeedsProblems ==
    (EqIgnoreAsciiCase(contestArg, <<"n", "o">>) /\ problems = None) =>
        /\ reqs = << >>
        /\ outcome = << >>
        /\ saved = << >>
        /\ dresult # "Ok"
        /\ (dpc = "done" => dresult \in {"Err(Login)", "Err(PleaseSpecifyProblems)"})
        /\ (dpc = "done" /\ dresult # "Err(Login)" => dresult = "Err(PleaseSpecifyProblems)")

\* The contest is spelled "No", no problem is given, and download has
\* failed with PleaseSpecifyProblems.
C18_Witness ==
    /\ contestArg = <<"N", "o">>
    /\ problems = None
    /\ dresult = "Err(PleaseSpecifyProblems)"

\* C19: a suite is saved only after every requested problem is scraped and
\* every selected archive is fetched and extracted; so a download that
\* failed in login, a scrape, a request or an extraction has saved no
\* suite.
C19_PersistenceIsDeferred ==
    /\ (saved # << >> =>
          /\ dpc \in {"save", "done"}
          /\ dresult \in {"running", "Ok", "Err(IO)"}
          /\ Len(zips) = Len(solvedBatchNos)
          /\ Len(extracted) = Len(solvedBatchNos)
          /\ \A n \in 1..Len(reqs) : reqs[n].status # 0
          /\ (FromString(contestArg) = "No" =>
                Len(notFound) + Len(notPublic) + Len(outcome) = Len(Unwrap(problems)))
          /\ (FromString(contestArg) # "No" =>
                \A n \in 1..Len(listing) :
                    Requested(listing[n].name) =>
                        \E m \in 1..Len(outcome) : outcome[m].name = listing[n].name))
    /\ (dresult \in {"Err(Login)", "Err(PleaseSpecifyProblems)", "Err(Transport)",
                      "Err(Scrape)", "Err(Extract)"} => saved = << >>)

\* A problem was scraped and the archive of another extracted when the
\* extraction of a second archive failed: nothing is saved.
C19_Witness ==
    /\ dresult = "Err(Extract)"
    /\ Len(outcome) = 2
    /\ Len(extracted) = 1
    /\ saved = << >>

C30_DrainAfterEveryTask ==
    zpc \in {"sort", "done"} =>
        /\ \A i \in Tasks : tpc[i] = "done"
        /\ mutex = None
        /\ pairs = EmptyMap

\* The drain has happened after two tasks merged into the map.
C30_Witness ==
    /\ zpc = "sort"
    /\ Len(archive) >= 2
    /\ \E i, j \in Tasks : i # j /\ Side(i) = "in" /\ Side(j) = "out" /\ Name(i) = Name(j)
    /\ Len(cases) = 1

\* The keys for which archive a holds an input entry and an output entry.
KeysWithBoth(a) ==
    {k \in Keys : /\ \E i \in 1..Len(a) : a[i].inCap = Some(k)
                  /\ \E j \in 1..Len(a) : a[j].inCap = None /\ a[j].outCap = Some(k)}

\* The order of two different keys in the returned sequence: by value when
\* both parse as usize, with equal values in dictionary order; a key that
\* parses before one that does not; two that do not in dictionary order.
Before(a, b) ==
    LET pa == ParseUsize(a)
        pb == ParseUsize(b)
    IN  IF IsSome(pa) /\ IsSome(pb)
        THEN \/ NumCmp(Unwrap(pa), Unwrap(pb)) = "Less"
             \/ NumCmp(Unwrap(pa), Unwrap(pb)) = "Equal" /\ StrCmp(a, b) = "Less"
        ELSE IF IsSome(pa) THEN TRUE
        ELSE IF IsSome(pb) THEN FALSE
        ELSE StrCmp(a, b) = "Less"

EntriesMerging(side, k) == {i \in Tasks : Side(i) = side /\ Name(i) = k}

\* The entry whose artifact is retained for a side of k when the tasks merge
\* one after the other in the order of the archive.
RetainedInArchiveOrder(side, k) ==
    CHOOSE i \in EntriesMerging(side, k) : \A j \in EntriesMerging(side, k) : j <= i

\* C29: the artifacts retained for each key are those that the run merging
\* the entries in the order of the archive retains, in every interleaving of
\* the entry tasks, also when several entries capture the same key on the
\* same side.
C29_RetainedArtifactsAreDetermined ==
    zpc \in {"sort", "done"} =>
        \A n \in 1..Len(cases) :
            /\ cases[n].input = RetainedInArchiveOrder("in", cases[n].name)
            /\ cases[n].output = RetainedInArchiveOrder("out", cases[n].name)

\* C21: when ZipArchive::new fails or the task of any entry fails to read or
\* decode it, extract_zip drains nothing and writes nothing, whatever the
\* other tasks have merged, and if it returns it returns the ReadZip error;
\* it returns ReadZip in no other case, with no file written and no name
\* returned.
C21_ReadFailureWritesNothing ==
    /\ (\E i \in Tasks : tpc[i] = "failed") =>
          /\ written = << >>
          /\ cases = << >>
          /\ ret = << >>
          /\ zpc \in {"par", "done"}
          /\ (zpc = "done" => zresult = "Err(ReadZip)")
    /\ zresult = "Err(ReadZip)" =>
          /\ zpc = "done"
          /\ written = << >>
          /\ ret = << >>
          /\ \/ \E i \in Tasks : tpc[i] = "failed"
             \/ \A i \in Tasks : tpc[i] = "start"

\* One task has merged its artifact into the map, the other failed, and
\* extract_zip has returned the error.
C21_Witness ==
    /\ zresult = "Err(ReadZip)"
    /\ \E i, j \in Tasks : tpc[i] = "failed" /\ tpc[j] = "done" /\ Side(j) # "none"
    /\ pairs # EmptyMap
    /\ written = << >>

\* All of the text of artifact x is in its file.
IsWritten(x) == \E m \in 1..Len(written) : written[m].file = x /\ written[m].whole

\* The file of artifact x was created or written.
Touched(x) == \E m \in 1..Len(written) : written[m].file = x

Open(t, p) ==
    \E q \in 1..(p - 1) :
        t[q] = "{" /\ \A r \in (q + 1)..(p - 1) : t[r] \notin {"{", "}"}

\* t has a '}' outside a group, a '{' inside one, or a group open at its end.
SyntaxBad(t) ==
    \/ \E p \in 1..Len(t) : (t[p] = "}" /\ ~Open(t, p)) \/ (t[p] = "{" /\ Open(t, p))
    \/ Open(t, Len(t) + 1)

\* The least position after p that holds one of the characters in S, or the
\* position after the end of t.
NextOf(t, p, S) ==
    CHOOSE e \in (p + 1)..(Len(t) + 1) :
        /\ (e = Len(t) + 1 \/ t[e] \in S)
        /\ \A r \in (p + 1)..(e - 1) : t[r] \notin S

\* The positions of the '$' that start a variable, and the name of each.
VarStarts(t) == {p \in 1..Len(t) : t[p] = "$" /\ ~Open(t, p)}
VarName(t, p) == SubSeq(t, p + 1, NextOf(t, p, {" ", "/", "\\", "$", "{"}) - 1)
InName(t, p) ==
    \E q \in VarStarts(t) : q < p /\ p < NextOf(t, q, {" ", "/", "\\", "$", "{"})

\* The positions of the '{' and the specifier of each, without the spaces
\* around it.
Groups(t) == {p \in 1..Len(t) : t[p] = "{"}
Core(s) ==
    LET solid == {n \in 1..Len(s) : s[n] # " "}
    IN  IF solid = {} THEN << >>
        ELSE SubSeq(s, CHOOSE a \in solid : \A n \in solid : a <= n,
                       CHOOSE b \in solid : \A n \in solid : n <= b)
Specifier(t, p) == Core(SubSeq(t, p + 1, NextOf(t, p, {"}"}) - 1))

BadVars(t, kw) == {p \in VarStarts(t) : KeywordsGet(kw, VarName(t, p)) = None}
BadGroups(t) == {p \in Groups(t) : Specifier(t, p) \notin {<< >>, <<"c">>, <<"C">>}}

\* What position p of t contributes to the formatted string.
Piece(t, p, tgt, kw) ==
    IF Open(t, p) THEN << >>
    ELSE IF t[p] = "{"
    THEN IF Specifier(t, p) = << >> THEN tgt ELSE <<"A">> \o Tail(tgt)
    ELSE IF t[p] = "$" THEN Unwrap(KeywordsGet(kw, VarName(t, p)))
    ELSE IF InName(t, p) THEN << >>
    ELSE <<t[p]>>

RECURSIVE Pieces(_, _, _, _)
\* The contributions of the first n positions, in order.
Pieces(t, n, tgt, kw) ==
    IF n = 0 THEN << >> ELSE Pieces(t, n - 1, tgt, kw) \o Piece(t, n, tgt, kw)

Least(S) == CHOOSE a \in S : \A n \in S : a <= n

\* C25: format returns the syntax error, and so no formatted string,
\* exactly for the templates that hold a '}' outside a brace group (in plain
\* text or in a variable name), a '{' inside an open group, or a group still
\* open at the end; every other template is tokenized.
C25_SyntaxErrors ==
    IsSome(fresult) =>
        (Unwrap(fresult).kind = "Syntax" <=> SyntaxBad(template))

\* A '}' in a variable name.
C25_Witness ==
    /\ template = <<"$", "c", "}">>
    /\ fresult = Some(FormatErr("Syntax", template))

\* C26: for a template without syntax error whose brace groups all have a
\* valid specifier, format fails with NoSuchKeyword, carrying the name, for
\* the first '$' whose name (the characters up to the next space, '/',
\* '\', '$', '{' or the end; possibly empty) is not a keyword, and
\* otherwise returns the template with every variable replaced by the value
\* of its keyword and the text outside variables and groups unchanged and
\* in order.
C26_VariableExpansion ==
    (IsSome(fresult) /\ ~SyntaxBad(template) /\ BadGroups(template) = {}) =>
        IF BadVars(template, keywords) = {}
        THEN fresult = Some(FormatOk(Pieces(template, Len(template), target, keywords)))
        ELSE fresult = Some(FormatErr("NoSuchKeyword",
                                      VarName(template, Least(BadVars(template, keywords)))))

\* "$$$" with the keyword "" gives its value three times.
C26_Witness ==
    /\ template = <<"$", "$", "$">>
    /\ KeywordsGet(keywords, << >>) = Some(<<"A">>)
    /\ fresult = Some(FormatOk(<<"A", "A", "A">>))

\* C27: for a template without syntax error whose variables are all
\* keywords, format fails with NoSuchSpecifier when the specifier of some
\* brace group, without the white space around it, is not empty, "c" or "C",
\* and otherwise returns the template with every group of empty specifier
\* replaced by the target and every group of specifier "c" or "C" by the
\* camelized target.
C27_BraceGroupExpansion ==
    (IsSome(fresult) /\ ~SyntaxBad(template) /\ BadVars(template, keywords) = {}) =>
        IF BadGroups(template) = {}
        THEN fresult = Some(FormatOk(Pieces(template, Len(template), target, keywords)))
        ELSE Unwrap(fresult).kind = "NoSuchSpecifier"

\* "{ c }" gives the camelized target.
C27_Witness ==
    /\ template = <<"{", " ", "c", " ", "}">>
    /\ target = <<"a", "b">>
    /\ fresult = Some(FormatOk(<<"A", "b">>))

\* The archive requests of the log are its last requests, one for each
\* element of solved_batch_nos, in order: the one batch of download_progress.
ArchiveBatchIsTail ==
    LET k == Len(solvedBatchNos)
        before == Len(reqs) - k
    IN  /\ before >= 0
        /\ \A m \in 1..Len(reqs) : reqs[m].kind = "archive" <=> m > before
        /\ \A j \in 1..k : reqs[before + j].arg = solvedBatchNos[j]

\* C23: in login, download and submit a request that got no accepted
\* response (it could not be sent, it timed out, or its status is not in
\* the accepted set) ends the command with the error of the request: it is
\* the last request of the command, or one of the batch of archive requests
\* that download_progress sends at once and that is the last of the
\* command; no request, the failed one included, is sent after it.
C23_RequestFailureAborts ==
    /\ \A n \in 1..Len(probes) :
          probes[n].got = "error" =>
              n = Len(probes) /\ lpc = "done" /\ result = "Err(Transport)"
    /\ \A n \in 1..Len(reqs) :
          reqs[n].status = 0 =>
              /\ dpc = "done"
              /\ dresult = "Err(Transport)"
              /\ n = Len(reqs) \/ (reqs[n].kind = "archive" /\ ArchiveBatchIsTail)
    /\ \A n \in 1..Len(sreqs) :
          sreqs[n].status = 0 =>
              n = Len(sreqs) /\ spc = "done" /\ sresult = "Err(Transport)"

\* submit has fetched the listing, the solved problems and the submit page,
\* and the POST failed.
C23_Witness ==
    /\ sresult = "Err(Transport)"
    /\ Len(sreqs) = 4
    /\ sreqs[1].kind = "listing" /\ sreqs[1].status = 200
    /\ sreqs[2].kind = "solved" /\ sreqs[2].status = 200
    /\ sreqs[3].kind = "submit page" /\ sreqs[3].status = 200
    /\ sreqs[4].kind = "post" /\ sreqs[4].status = 0

(***************************************************************************)
(* Properties of Yukicoder::submit.                                        *)
(***************************************************************************)
\* No language id is configured and the extension has not exactly one
\* candidate: "c" has two, "zz" is unknown.
Unrecognized == sprops.lang_id = None /\ sprops.ext \in {"c", "zz"}

\* C39: while submit resolves the language id no request has been sent and
\* no login has happened; with no configured id the extension "rs" (one
\* candidate) gives "rust", and an extension with several candidates or an
\* unknown one ends submit with RecognizeByExtension, with no request sent
\* and no login made; that error comes about in no other way.
C39_LanguageResolvedFirst ==
    spc # "idle" =>
        /\ (spc = "lang" => sreqs = << >> /\ username = None /\ slang = None)
        /\ (spc # "lang" /\ sprops.lang_id = None /\ sprops.ext = "rs" =>
               slang = Some("rust"))
        /\ (spc # "lang" /\ Unrecognized =>
               /\ spc = "done"
               /\ sresult = "Err(RecognizeByExtension)"
               /\ sreqs = << >>
               /\ username = None
               /\ slang = None)
        /\ (sresult = "Err(RecognizeByExtension)" => Unrecognized)

\* A source file with the extension "c" and no configured language id.
C39_Witness ==
    /\ spc = "done"
    /\ sprops.lang_id = None
    /\ sprops.ext = "c"
    /\ sresult = "Err(RecognizeByExtension)"
    /\ sreqs = << >>

\* The target is a numbered problem that the logged-in user has solved.
TargetSolved ==
    /\ IsSome(surl)
    /\ \E n \in solved : Unwrap(surl) = U64ToString(n)

\* A request of one of the kinds is in the log of submit.
SubmitSent(kinds) == \E n \in 1..Len(sreqs) : sreqs[n].kind \in kinds

\* What submit does in whatever order the POST is answered: the login comes
\* before every request, a solved numbered target without the skip flag ends
\* in AlreadyAccepted with neither the submit page fetched nor anything
\* posted, and Ok needs a Location header of a submission.
SubmitOrder ==
    /\ (spc \in {"lang", "read", "login"} => sreqs = << >>)
    /\ (sreqs # << >> \/ spc \in {"url", "solved", "page", "post"} => IsSome(username))
    /\ (sresult = "Err(AlreadyAccepted)" <=>
           /\ spc = "done"
           /\ TargetSolved
           /\ ~sprops.skip_checking_if_accepted
           /\ sreqs # << >>
           /\ sreqs[Len(sreqs)].kind = "solved"
           /\ sreqs[Len(sreqs)].status = 200)
    /\ (TargetSolved /\ ~sprops.skip_checking_if_accepted =>
           /\ ~SubmitSent({"submit page", "post"})
           /\ spc \notin {"page", "post"}
           /\ slocation = None
           /\ sresult # "Ok")
    /\ (sresult = "Ok" => slocation = Some("/submissions/1"))
    /\ (IsSome(slocation) =>
           /\ spc = "done"
           /\ sreqs[Len(sreqs)] = Request("post", Unwrap(surl), 302))

\* C40 as stated: submit logs in first; a numbered target already solved,
\* without the skip flag, fails with AlreadyAccepted before the submit page
\* is fetched or anything is posted; success is reported only for a Location
\* header containing "/submissions/", and every other response to the POST
\* fails with SubmissionRejected.
C40_OtherwiseSubmissionRejected ==
    spc # "idle" =>
        /\ SubmitOrder
        /\ (IsSome(slocation) /\ slocation # Some("/submissions/1") =>
               sresult = "Err(SubmissionRejected)")

\* C40, amended: as above, but a response to the POST without a Location
\* header of a submission fails with SubmissionRejected, or with ReadHeader
\* when its Location header is not a string.
C40_SubmitOutcome ==
    spc # "idle" =>
        /\ SubmitOrder
        /\ (IsSome(slocation) /\ slocation \notin {Some("/submissions/1"), Some("invalid")} =>
               sresult = "Err(SubmissionRejected)")
        /\ (slocation = Some("invalid") => sresult = "Err(ReadHeader)")

C40_Witness ==
    /\ spc = "done"
    /\ TargetSolved
    /\ sprops.skip_checking_if_accepted
    /\ SubmitSent({"solved"})
    /\ slocation = Some("invalid")
    /\ sresult = "Err(ReadHeader)"

DigitOnly(s) == s # << >> /\ \A i \in 1..Len(s) : IsDigit(s[i])

\* C34: when the last sorting is Number, the returned keys that consist of
\* decimal digits only are in the order of their integer values, whatever
\* their length, and none of them comes after a key that is not a number.
C34_DigitKeysOrderedByValue ==
    (zpc = "done" /\ Len(sortings) >= 1 /\ sortings[Len(sortings)] = "Number") =>
        \A a, b \in 1..Len(ret) :
            a < b =>
                /\ (DigitOnly(ret[a]) /\ DigitOnly(ret[b])) =>
                       NumCmp(StripZeros(ret[a]), StripZeros(ret[b])) # "Greater"
                /\ DigitOnly(ret[b]) => DigitOnly(ret[a])

(* Properties of the two modes of Yukicoder::download. *)
\* The row of a listing is in the subset the caller asked for.
Wanted(row) ==
    problems = None \/ row.name \in {Unwrap(problems)[n] : n \in 1..Len(Unwrap(problems))}

\* The (name, link) pairs of the outcome, in order.
OutcomeRows == [n \in 1..Len(outcome) |-> [name |-> outcome[n].name, href |-> outcome[n].url]]

\* C35: in grouped mode the outcome is, in order, the wanted rows of the
\* part of the listing gone through, which is all of it once the loop is
\* left; a page is requested only for a wanted row, and nothing is put on the
\* not-found or not-public lists and no warning is printed, so a requested
\* name that no row has leaves no trace.
C35_GroupedOutcomeInListingOrder ==
    (dpc # "idle" /\ FromString(contestArg) = "Contest") =>
        /\ notFound = << >>
        /\ notPublic = << >>
        /\ warnings = << >>
        /\ \E k \in 0..Len(listing) :
              /\ OutcomeRows = SelectSeq(SubSeq(listing, 1, k), Wanted)
              /\ dpc = "grouped" => k = dIdx - 1
              /\ (dpc \in {"filter", "archives", "extract", "save"} \/ dresult = "Ok") =>
                     k = Len(listing)
        /\ \A n \in 1..Len(reqs) :
              reqs[n].kind = "page" =>
                  \E m \in 1..Len(listing) : Wanted(listing[m]) /\ listing[m].href = reqs[n].arg

\* The caller asked for "2" and "A", the listing has "1" and "A": download
\* returned Ok with A alone in the outcome.
C35_Witness ==
    /\ FromString(contestArg) = "Contest"
    /\ dresult = "Ok"
    /\ problems = Some(<<"2", "A">>)
    /\ Len(listing) = 2
    /\ listing[1].name = "1"
    /\ listing[2].name = "A"
    /\ Len(outcome) = 1
    /\ outcome[1].name = "A"
    /\ Len(saved) = 1

IsPage(r) == r.kind = "page"
Answered(r) == r.status # 0
AnsweredNotFound(r) == r.status = 404
AnsweredNotPublic(r) == r.status = 200 /\ r.hidden
AnsweredAvailable(r) == r.status = 200 /\ ~r.hidden

\* The identifiers the requests of v were sent for, in order.
Args(v) == [n \in 1..Len(v) |-> v[n].arg]

\* C36: in direct mode the pages are requested for the identifiers in the
\* order of the request, and each answered one puts its identifier in one
\* place, chosen by its own response: the not-found list for a 404 status,
\* with or without the not-public marker; the not-public list for another
\* status with the marker; the outcome, after a scrape, for the rest.  Each of
\* the three keeps the order of the request, and once the loop is left every
\* requested identifier is in one of them.
C36_DirectClassification ==
    (dpc # "idle" /\ FromString(contestArg) = "No" /\ problems # None) =>
        LET pages == SelectSeq(reqs, IsPage)
            answered == SelectSeq(pages, Answered)
            available == Args(SelectSeq(answered, AnsweredAvailable))
        IN  /\ Len(pages) <= Len(Unwrap(problems))
            /\ \A n \in 1..Len(pages) : pages[n].arg = Unwrap(problems)[n]
            /\ notFound = Args(SelectSeq(answered, AnsweredNotFound))
            /\ notPublic = Args(SelectSeq(answered, AnsweredNotPublic))
            /\ \/ OutcomeNames = available
               \/ /\ dresult = "Err(Scrape)"
                  /\ available = Append(OutcomeNames, pages[Len(pages)].arg)
            /\ (dpc \in {"filter", "archives", "extract", "save"} \/ dresult = "Ok") =>
                  /\ answered = pages
                  /\ Len(pages) = Len(Unwrap(problems))
                  /\ OutcomeNames = available
                  /\ Len(notFound) + Len(notPublic) + Len(outcome) = Len(Unwrap(problems))

\* The page of the first identifier had the status 404 and the marker, the
\* second was scraped: the first is on the not-found list only.
C36_Witness ==
    /\ FromString(contestArg) = "No"
    /\ dresult = "Ok"
    /\ Len(Unwrap(problems)) = 2
    /\ reqs[1].kind = "page"
    /\ reqs[1].status = 404
    /\ reqs[1].hidden
    /\ notFound = <<Unwrap(problems)[1]>>
    /\ notPublic = << >>
    /\ OutcomeNames = <<Unwrap(problems)[2]>>

(* Properties of the archives of Yukicoder::download. *)
\* The suite refers to the files of archive z.
RefersTo(suite, z) == suite.kind = "Batch" /\ suite.cases = <<"paths", z>>

\* The suite refers to files.
RefersToFiles(suite) == \E z \in Names : RefersTo(suite, z)

\* C37: one archive is requested for each element of the list of selected
\* problems and, when the requests succeed, as many archives are held, the
\* i-th being the one of the i-th element; the i-th extraction is of the
\* i-th archive, into the text-file directory of the i-th element, and its
\* paths are recorded under that element; and a suite refers to the files of
\* an archive only if its problem has the name the archive was recorded
\* under.
C37_ArchivesPairedByPosition ==
    dpc # "idle" =>
        LET archives == SelectSeq(reqs, LAMBDA r : r.kind = "archive")
        IN  /\ archives # << >> => Args(archives) = solvedBatchNos
            /\ zips # << >> =>
                  /\ Len(zips) = Len(solvedBatchNos)
                  /\ Len(archives) = Len(zips)
                  /\ \A i \in 1..Len(zips) :
                        archives[i].status = 200 /\ zips[i] = archives[i].arg
            /\ Len(extracted) <= Len(zips)
            /\ Len(textFilePaths) = Len(extracted)
            /\ \A i \in 1..Len(extracted) :
                  /\ extracted[i] = [zip |-> zips[i], dir |-> solvedBatchNos[i]]
                  /\ textFilePaths[i] = [no |-> solvedBatchNos[i], paths |-> zips[i]]
            /\ (dpc = "save" \/ saved # << >>) => Len(extracted) = Len(solvedBatchNos)
            /\ \A n \in 1..Len(outcome) :
                  RefersToFiles(outcome[n].suite) =>
                      \E i \in 1..Len(textFilePaths) :
                          /\ textFilePaths[i].no = outcome[n].name
                          /\ RefersTo(outcome[n].suite, textFilePaths[i].paths)
                          /\ \A j \in 1..(i - 1) : textFilePaths[j].no # outcome[n].name
            /\ \A n \in 1..Len(saved) :
                  RefersToFiles(saved[n].suite) =>
                      \E i \in 1..Len(textFilePaths) :
                          /\ textFilePaths[i].no = saved[n].name
                          /\ RefersTo(saved[n].suite, textFilePaths[i].paths)

\* Two problems were selected in the order 2, 1: both archives are
\* extracted and each saved suite refers to the files of its own archive.
C37_Witness ==
    /\ dresult = "Ok"
    /\ solvedBatchNos = <<"2", "1">>
    /\ zips = <<"2", "1">>
    /\ Len(extracted) = 2
    /\ Len(saved) = 2
    /\ saved[1].name = "2" /\ RefersTo(saved[1].suite, "2")
    /\ saved[2].name = "1" /\ RefersTo(saved[2].suite, "1")

\* What one step does to the problems of the outcome: each keeps its place,
\* its name and its URL, and a suite changes only in the iteration of the
\* last loop that is at its problem, only if it is a batch suite whose
\* problem has the name some archive was recorded under, and only in its
\* cases, which become the paths of that archive.
PromotionIsLocal ==
    \A n \in 1..Len(outcome) :
        /\ n <= Len(outcome')
        /\ outcome'[n].name = outcome[n].name
        /\ outcome'[n].url = outcome[n].url
        /\ outcome'[n].suite # outcome[n].suite =>
              /\ dpc = "save"
              /\ n = dIdx
              /\ outcome[n].suite.kind = "Batch"
              /\ \E i \in 1..Len(textFilePaths) :
                    /\ textFilePaths[i].no = outcome[n].name
                    /\ outcome'[n].suite =
                           [outcome[n].suite EXCEPT !.cases = <<"paths", textFilePaths[i].paths>>]

\* The suites are saved one per problem, in the order of the outcome, each as
\* it stands in the outcome, and a URL is opened only once all are saved.
SavedInOutcomeOrder ==
    /\ Len(saved) <= Len(outcome)
    /\ \A n \in 1..Len(saved) : saved[n] = [name |-> outcome[n].name, suite |-> outcome[n].suite]
    /\ \A n \in 1..Len(outcome) :
          /\ outcome[n].suite.kind # "Unsubmittable"
          /\ (n > Len(saved) /\ ~(dpc = "done" /\ n = Len(saved) + 1)) =>
                ~RefersToFiles(outcome[n].suite)
    /\ opened # << >> =>
          /\ Len(saved) = Len(outcome)
          /\ opened = [n \in 1..Len(outcome) |-> outcome[n].url]
    /\ dresult = "Ok" => Len(saved) = Len(outcome)

\* C38: promotion changes nothing but the cases of the batch suite of the
\* problem an archive was extracted for; no problem is left with the
\* Unsubmittable placeholder; and every problem of the outcome is saved once,
\* in the order of the outcome, before any URL is opened.
C38_PromotionIsLocal == [](dpc # "idle" => SavedInOutcomeOrder) /\ [][PromotionIsLocal]_vars

\* The first problem was promoted, the second, an interactive one, was not;
\* both are saved and both URLs are opened.
C38_Witness ==
    /\ dresult = "Ok"
    /\ Len(outcome) = 2
    /\ RefersToFiles(outcome[1].suite)
    /\ outcome[2].suite = InteractiveSuite
    /\ Len(saved) = 2
    /\ Len(opened) = 2

(* Properties of the CRLF normalization. *)
\* The flag of the side the entry is on.
OwnFlag == IF entrySide = "in" THEN inCrlfToLf ELSE outCrlfToLf

\* C33: the stored text is the text read when the flag of its own side is
\* off, whatever the other flag is; when that flag is on it is the text with
\* the CRLF sequences replaced, it contains no CRLF sequence, and normalizing
\* it once more gives the same text.
C33_CrlfNormalizationIdempotent ==
    IsSome(stored) =>
        LET text == Unwrap(stored)
        IN  /\ ~OwnFlag => text = content
            /\ OwnFlag =>
                  /\ text = ReplaceCrlf(content)
                  /\ ~ContainsCrlf(text)
                  /\ CrlfToLf(TRUE, text) = text

(* Properties of the parallel phase under fair scheduling. *)
\* The stages of a task, in the order it goes through them.
Stage(s) ==
    CASE s = "start" -> 0
      [] s = "matched" -> 1
      [] s = "locked" -> 2
      [] s = "removed" -> 3
      [] OTHER -> 4

\* The one lock is held by the task, and by no other, exactly while it is
\* between its lock and the end of its merge.
LockDiscipline ==
    /\ \A i \in Tasks : (mutex = Some(i)) <=> tpc[i] \in {"locked", "removed"}
    /\ mutex = None \/ \E i \in Tasks : mutex = Some(i)

\* A task never goes back to an earlier stage, so it takes the lock at most
\* once; it takes it only when it is free and gives it back with its insert.
LockOnce ==
    \A i \in Tasks :
        /\ tpc'[i] # tpc[i] => Stage(tpc'[i]) > Stage(tpc[i])
        /\ (tpc[i] # "locked" /\ tpc'[i] = "locked") => mutex = None /\ mutex' = Some(i)
        /\ (tpc[i] = "removed" /\ tpc'[i] = "done") => mutex = Some(i) /\ mutex' = None

\* The phase is over and no closure is left in the middle: every task has
\* returned, or an error was returned and the task was never started.
PhaseOver ==
    /\ zpc # "par"
    /\ \A i \in Tasks :
          \/ tpc[i] \in {"done", "failed"}
          \/ tpc[i] = "start" /\ \E j \in Tasks : tpc[j] = "failed"
    /\ (\A i \in Tasks : tpc[i] # "failed") => \A i \in Tasks : tpc[i] = "done"

\* C31: a task holds the one lock exactly from its lock to the end of its
\* merge and takes it at most once, and under fair scheduling the parallel
\* phase ends with every task that was started returned, all of them when no
\* read fails.
C31_ParallelPhaseTerminates == []LockDiscipline /\ [][LockOnce]_vars /\ <>PhaseOver

\* Two tasks have merged the two sides of one key, one after the other, and
\* collect has returned.
C31_Witness ==
    /\ zpc = "sort"
    /\ Len(archive) = 2
    /\ tpc = <<"done", "done">>
    /\ Side(1) # "none"
    /\ Side(2) # "none"
    /\ Name(1) = Name(2)
    /\ mutex = None
====
